---- MODULE Spec2Model ----
(***************************************************************************)
(* Kid Video App: the video-assignment / progress-tracking store and the   *)
(* global-playlist subscription protocol (server/routes.ts and             *)
(* server/storage.ts as carried in src/replit.md, shared/schema.ts).       *)
(*                                                                         *)
(* Conventions                                                             *)
(*   - an optional value (T | undefined | null) is a sequence of length    *)
(*     at most one: <<>> is absent, <<x>> is present;                      *)
(*   - ids (kid_..., folder_..., vid_..., gsub_...) are fresh: they are    *)
(*     the successive values of the counter nextId, whose order is the     *)
(*     order of Date.now() in the generated strings;                       *)
(*   - a table without a primary-key lookup is a set of rows; the folders  *)
(*     table is a sequence because two handlers read rows[0] of a          *)
(*     selection by name, which is not a key.                              *)
(***************************************************************************)
EXTENDS Integers, Sequences, FiniteSets, TLC

VARIABLES
    kidsTable,                  \* rows of pgTable("kids")
    foldersTable,               \* rows of pgTable("folders"), in heap order
    videosTable,                \* rows of pgTable("videos")
    globalSubscriptionsTable,   \* rows of pgTable("global_subscriptions")
    masterCleanedUp,            \* the per-process Set of routes.ts
    nextId,                     \* source of fresh ids
    last,                       \* the response to the last request that keeps it
    completions,                \* history: the accepted completions, in order
    inFlight                    \* the handlers suspended at an await

vars == <<kidsTable, foldersTable, videosTable, globalSubscriptionsTable,
          masterCleanedUp, nextId, last, completions, inFlight>>

----------------------------------------------------------------------------
(* Program constants *)

MAX_VIDEO_VIEWS == 4
VIDEO_PRIORITY_MIN == 1
VIDEO_PRIORITY_MAX == 9
VIDEO_PRIORITY_DEFAULT == 5
MAX_KIDS == 6
MASTER_USER_ID == "M"

(* Bounds of the model *)

MaxAccepted == 5        \* accepted completions of the video in SpecCap
MaxRewatch == 2         \* accepted completions of the video in SpecWatch
MaxDuration == 2        \* recording durations range over -1..MaxDuration
MaxTime == 1            \* values of new Date() range over 1..MaxTime

----------------------------------------------------------------------------
(* Values *)

None == <<>>
Some(x) == <<x>>

\* z.infer<typeof videoProgressSchema>; every optional field absent
EmptyProgress ==
    [watched |-> FALSE, watchedAt |-> None, voiceRecording |-> None,
     voiceRecordings |-> <<>>, parentReviewed |-> None, lastPosition |-> None,
     videoDuration |-> None, dailyWatchTime |-> <<>>]

\* the literal { watched: false } of createKid, createVideo, syncSubscription
NotWatched == EmptyProgress

\* m with key k bound to x (obj[k] = x on a Record<string, T>)
Put(m, k, x) == [j \in (DOMAIN m) \cup {k} |-> IF j = k THEN x ELSE m[j]]

\* no handler is suspended: no POST /api/kids between its check and its
\* insert, no duplicate cleanup between its writes
Idle == [creating |-> {}, cleanup |-> <<>>, handlers |-> {}]

\* the response recorded for a request: its route, status code and error text
Response(op, status, error) == [op |-> op, status |-> status, error |-> error]

\* history: the accepted completions <<videoId, kidId>>, oldest first
Accepted(videoId) ==
    Cardinality({i \in DOMAIN completions : completions[i][1] = videoId})
Completers(videoId) ==
    {completions[i][2] : i \in {j \in DOMAIN completions : completions[j][1] = videoId}}

----------------------------------------------------------------------------
(* DatabaseStorage: videos *)

\* db.select().from(videosTable).where(and(eq(id), eq(userId)))
getVideo(id, userId) == {v \in videosTable : v.id = id /\ v.userId = userId}

\* db.select().from(kidsTable).where(eq(kidsTable.id, kidId))
getKidById(kidId) == {k \in kidsTable : k.id = kidId}

WatchedProgressResetsWatchedAt(prev, voiceRecording, now) ==
    LET existingRecordings == IF prev # None THEN prev[1].voiceRecordings ELSE <<>>
        legacySingle == IF prev # None THEN prev[1].voiceRecording ELSE None
        migrated == IF legacySingle # None /\ Len(existingRecordings) = 0
                    THEN Append(existingRecordings, legacySingle[1])
                    ELSE existingRecordings
    IN  [EmptyProgress EXCEPT
            !.watched = TRUE,
            !.watchedAt = Some(now),
            !.voiceRecordings = Append(migrated, voiceRecording),
            !.parentReviewed = Some(FALSE)]

WatchedProgressForgetting(prev, voiceRecording, now) ==
    [EmptyProgress EXCEPT
        !.watched = TRUE,
        !.watchedAt = IF prev # None /\ prev[1].watchedAt # None
                      THEN prev[1].watchedAt ELSE Some(now),
        !.voiceRecordings = <<voiceRecording>>,
        !.parentReviewed = Some(FALSE)]

\* The progress entry markVideoWatched stores: an object literal with four
\* fields, so every other field of the previous entry is dropped.
WatchedProgress(prev, voiceRecording, now) ==
    LET existingRecordings == IF prev # None THEN prev[1].voiceRecordings ELSE <<>>
        legacySingle == IF prev # None THEN prev[1].voiceRecording ELSE None
        migrated == IF legacySingle # None /\ Len(existingRecordings) = 0
                    THEN Append(existingRecordings, legacySingle[1])
                    ELSE existingRecordings
    IN  [EmptyProgress EXCEPT
            !.watched = TRUE,
            !.watchedAt = IF prev # None /\ prev[1].watchedAt # None
                          THEN prev[1].watchedAt ELSE Some(now),
            !.voiceRecordings = Append(migrated, voiceRecording),
            !.parentReviewed = Some(FALSE)]

\* video.progress[kidId]?.watched
AlreadyWatched(video, kidId) ==
    kidId \in DOMAIN video.progress /\ video.progress[kidId].watched

CapReachedOffByOne(video, kidId) ==
    ~AlreadyWatched(video, kidId) /\ video.totalViews > MAX_VIDEO_VIEWS

CapReachedCountsRewatch(video, kidId) ==
    video.totalViews >= MAX_VIDEO_VIEWS

\* the guard of the view cap
CapReached(video, kidId) ==
    ~AlreadyWatched(video, kidId) /\ video.totalViews >= MAX_VIDEO_VIEWS

CapError == "This video has reached the maximum number of views (4)"

markVideoWatchedCountingRewatch(videoId, kidId, voiceRecording, userId, now) ==
    LET rows == getVideo(videoId, userId) IN
    IF rows = {}
    THEN [ok |-> FALSE, error |-> "Video not found", videos |-> videosTable]
    ELSE
      LET video == CHOOSE v \in rows : TRUE
          prev == IF kidId \in DOMAIN video.progress
                  THEN Some(video.progress[kidId]) ELSE None
          updated == [video EXCEPT
                         !.progress = Put(@, kidId,
                                          WatchedProgress(prev, voiceRecording, now)),
                         !.totalViews = @ + 1]
      IN  IF CapReached(video, kidId)
          THEN [ok |-> FALSE, error |-> CapError, videos |-> videosTable]
          ELSE [ok |-> TRUE, error |-> "",
                videos |-> (videosTable \ rows) \cup {updated}]

\* markVideoWatched: <<ok, error, videosTable afterwards>>
markVideoWatched(videoId, kidId, voiceRecording, userId, now) ==
    LET rows == getVideo(videoId, userId) IN
    IF rows = {}
    THEN [ok |-> FALSE, error |-> "Video not found", videos |-> videosTable]
    ELSE
      LET video == CHOOSE v \in rows : TRUE
          alreadyWatched == AlreadyWatched(video, kidId)
          prev == IF kidId \in DOMAIN video.progress
                  THEN Some(video.progress[kidId]) ELSE None
          progress == Put(video.progress, kidId,
                          WatchedProgress(prev, voiceRecording, now))
          totalViews == IF ~alreadyWatched THEN video.totalViews + 1
                        ELSE video.totalViews
          updated == [video EXCEPT !.progress = progress, !.totalViews = totalViews]
      IN  IF CapReached(video, kidId)
          THEN [ok |-> FALSE,
                error |-> CapError,
                videos |-> videosTable]
          ELSE [ok |-> TRUE, error |-> "",
                videos |-> (videosTable \ rows) \cup {updated}]

\* markVideoWatchedPublic delegates to markVideoWatched
markVideoWatchedPublic(videoId, kidId, voiceRecording, ownerUserId, now) ==
    markVideoWatched(videoId, kidId, voiceRecording, ownerUserId, now)

----------------------------------------------------------------------------
(* Routes: completion *)

NotAString == "<not a string>"

InvalidRecordingAllowsZero(body) ==
    \/ body = None
    \/ body[1].recordedAt = NotAString
    \/ body[1].duration < 0

\* !voiceRecording || typeof recordedAt !== 'string'
\*   || typeof duration !== 'number' || duration <= 0
InvalidRecording(body) ==
    \/ body = None
    \/ body[1].recordedAt = NotAString
    \/ body[1].duration <= 0

ValidationError ==
    "A valid voice recording with duration > 0 is required to complete the video"

\* POST /api/videos/:videoId/watched/:kidId: the response and the videos
\* table it leaves
PostWatched(userId, videoId, kidId, body, now) ==
    IF InvalidRecording(body)
    THEN [status |-> 400, error |-> ValidationError, videos |-> videosTable]
    ELSE LET result == markVideoWatched(videoId, kidId, body[1], userId, now) IN
         IF ~result.ok
         THEN [status |-> 400, error |-> result.error, videos |-> videosTable]
         ELSE [status |-> 200, error |-> "", videos |-> result.videos]

\* POST /api/public/kid/:kidId/videos/:videoId/watched
PostWatchedPublic(videoId, kidId, body, now) ==
    IF InvalidRecording(body)
    THEN [status |-> 400, error |-> ValidationError, videos |-> videosTable]
    ELSE IF getKidById(kidId) = {}
    THEN [status |-> 404, error |-> "Kid not found", videos |-> videosTable]
    ELSE LET kid == CHOOSE k \in getKidById(kidId) : TRUE
             result == markVideoWatchedPublic(videoId, kidId, body[1], kid.userId, now)
         IN
         IF ~result.ok
         THEN [status |-> 400, error |-> result.error, videos |-> videosTable]
         ELSE [status |-> 200, error |-> "", videos |-> result.videos]

\* a completion request is answered with r
Complete(op, videoId, kidId, r) ==
    /\ last' = Response(op, r.status, r.error)
    /\ videosTable' = r.videos
    /\ completions' = IF r.status = 200
                      THEN Append(completions, <<videoId, kidId>>)
                      ELSE completions

----------------------------------------------------------------------------
(* shared/schema.ts: the URL classifier.  A URL is what new URL() makes of *)
(* the string: hostname labels, the non-empty segments of the pathname and *)
(* the query parameter v; a string new URL() rejects has no host.          *)

Url(host, path, v) == [host |-> host, path |-> path, v |-> v]
Unparseable == Url(<<>>, <<>>, None)

\* labels and segments the substring tests of the classifier can tell apart
EndsWithYoutube == {"youtube", "notyoutube"}
StartsWithCom == {"com", "community"}
NumericSegments == {"123", "456"}

\* u.hostname.replace("www.", ""): the first "www." goes
StripWww(host) ==
    LET at == {i \in 1..(Len(host) - 1) : host[i] = "www"} IN
    IF at = {} THEN host
    ELSE LET i == CHOOSE j \in at : \A k \in at : j <= k
         IN  SubSeq(host, 1, i - 1) \o SubSeq(host, i + 1, Len(host))

\* host.includes("youtube.com")
IncludesYoutubeCom(host) ==
    \E i \in 1..(Len(host) - 1) :
        host[i] \in EndsWithYoutube /\ host[i + 1] \in StartsWithCom

getYouTubeId(url) ==
    IF url.host = <<>> THEN None
    ELSE LET host == StripWww(url.host)
             parts == url.path
         IN  IF host = <<"youtu", "be">>
             THEN (IF Len(parts) >= 1 THEN Some(parts[1]) ELSE None)
             ELSE IF IncludesYoutubeCom(host)
             THEN IF url.v # None /\ url.v[1] # "" THEN url.v
                  ELSE IF Len(parts) >= 2 /\ parts[1] = "shorts" THEN Some(parts[2])
                  ELSE IF Len(parts) >= 2 /\ parts[1] = "embed" THEN Some(parts[2])
                  ELSE None
             ELSE None

getTikTokIdOfAnySegment(url) ==
    IF url.host = <<>> THEN None
    ELSE LET host == StripWww(url.host)
             parts == url.path
             at == {i \in 1..Len(parts) : parts[i] = "video"}
         IN  IF (host = <<"tiktok", "com">> \/ host = <<"m", "tiktok", "com">>)
                /\ at # {}
                /\ (CHOOSE j \in at : \A k \in at : j <= k) + 1 <= Len(parts)
             THEN Some(parts[(CHOOSE j \in at : \A k \in at : j <= k) + 1])
             ELSE None

getTikTokId(url) ==
    IF url.host = <<>> THEN None
    ELSE LET host == StripWww(url.host)
             parts == url.path
             at == {i \in 1..Len(parts) : parts[i] = "video"}
         IN  IF host = <<"tiktok", "com">> \/ host = <<"m", "tiktok", "com">>
             THEN IF at = {} THEN None
                  ELSE LET videoIndex == CHOOSE j \in at : \A k \in at : j <= k
                       IN  IF videoIndex + 1 <= Len(parts)
                              /\ parts[videoIndex + 1] \in NumericSegments
                           THEN Some(parts[videoIndex + 1])
                           ELSE None
             ELSE None

getVideoInfo(url) ==
    IF getYouTubeId(url) # None
    THEN Some([platform |-> "youtube", videoId |-> getYouTubeId(url)[1]])
    ELSE IF getTikTokId(url) # None
    THEN Some([platform |-> "tiktok", videoId |-> getTikTokId(url)[1]])
    ELSE None

----------------------------------------------------------------------------
(* DatabaseStorage on an explicit database value, so that one method can   *)
(* run on what another left (subscribe calls syncSubscription).            *)

DB == [kids |-> kidsTable, folders |-> foldersTable, videos |-> videosTable,
       subs |-> globalSubscriptionsTable, nextId |-> nextId]

Range(q) == {q[i] : i \in DOMAIN q}

\* a row put into a sequence-table at heap position pos
InsertAt(table, pos, row) ==
    SubSeq(table, 1, pos - 1) \o <<row>> \o SubSeq(table, pos, Len(table))

\* the positions a new row can take that selections can tell apart: the end,
\* or before a row of the same owner and name
Positions(table, userId, name) ==
    {Len(table) + 1} \cup
    {i \in 1..Len(table) : table[i].userId = userId /\ table[i].name = name}

getKids(db, userId) == {k \in db.kids : k.userId = userId}

\* the video id, folder id and so on generated next
FreshId(db) == db.nextId

InvalidUrlError ==
    "Invalid video URL. Please paste a valid YouTube or TikTok link."
DuplicateVideoError == "This video has already been added to your library."

\* kidIds.length > 0 ? the listed ids : allKids, with no look at the kids table
TargetKidsAsListed(kidIds, allKids) ==
    IF kidIds # <<>> THEN {[id |-> kidIds[i]] : i \in DOMAIN kidIds} ELSE allKids

\* as TargetKids, but all the kids when none of the listed ids is a kid
TargetKidsFallingBack(kidIds, allKids) ==
    IF {k \in allKids : k.id \in Range(kidIds)} # {}
    THEN {k \in allKids : k.id \in Range(kidIds)} ELSE allKids

\* kidIds && kidIds.length > 0 ? allKids.filter(k => kidIds.includes(k.id)) : allKids
TargetKids(kidIds, allKids) ==
    IF kidIds # <<>> THEN {k \in allKids : k.id \in Range(kidIds)} ELSE allKids

\* the assigned and progress maps of a new video
FreshAssigned(targetKids) == [k \in {t.id : t \in targetKids} |-> TRUE]
FreshProgress(targetKids) == [k \in {t.id : t \in targetKids} |-> NotWatched]

\* the dedup test of createVideo: a row of the owner with this ytId
ExistingVideo(db, videoId, userId) ==
    {v \in db.videos : v.ytId = videoId /\ v.userId = userId}

\* createVideo(url, kidIds, allKids, userId, folderId, priority):
\* kidIds, folderId and priority are optional
createVideo(db, url, kidIds, allKids, userId, folderId, priority) ==
    LET videoInfo == getVideoInfo(url) IN
    IF videoInfo = None
    THEN [ok |-> FALSE, error |-> InvalidUrlError, db |-> db]
    ELSE IF ExistingVideo(db, videoInfo[1].videoId, userId) # {}
    THEN [ok |-> FALSE, error |-> DuplicateVideoError, db |-> db]
    ELSE
      LET targetKids == TargetKids(IF kidIds = None THEN <<>> ELSE kidIds[1], allKids)
          video == [id |-> FreshId(db), userId |-> userId, url |-> url,
                    ytId |-> videoInfo[1].videoId,
                    platform |-> videoInfo[1].platform,
                    folderId |-> folderId,
                    priority |-> IF priority = None THEN VIDEO_PRIORITY_DEFAULT
                                 ELSE priority[1],
                    assigned |-> FreshAssigned(targetKids),
                    progress |-> FreshProgress(targetKids),
                    totalViews |-> 0]
      IN  [ok |-> TRUE, error |-> "",
           db |-> [db EXCEPT !.videos = @ \cup {video}, !.nextId = @ + 1]]

\* updateVideo(id, userId, { priority?, folderId? }); folderId is
\* <<>> when not given, <<None>> for null, <<Some(f)>> for a folder id
updateVideo(db, id, userId, priority, folderId) ==
    LET rows == {v \in db.videos : v.id = id /\ v.userId = userId} IN
    IF rows = {} THEN [ok |-> FALSE, db |-> db]
    ELSE LET video == CHOOSE v \in rows : TRUE
             updated == [video EXCEPT
                            !.priority = IF priority # None THEN priority[1] ELSE @,
                            !.folderId = IF folderId # <<>> THEN folderId[1] ELSE @]
         IN  [ok |-> TRUE, db |-> [db EXCEPT !.videos = (@ \ rows) \cup {updated}]]

deleteVideoOfAnyOwner(db, id, userId) ==
    [db EXCEPT !.videos = {v \in @ : v.id # id}]

deleteVideo(db, id, userId) ==
    [db EXCEPT !.videos = {v \in @ : ~(v.id = id /\ v.userId = userId)}]

\* deleteKid removes the row of the kids table and nothing else
deleteKid(db, id, userId) ==
    [db EXCEPT !.kids = {k \in @ : ~(k.id = id /\ k.userId = userId)}]

createKidSkippingFolders(db, insertKid, userId) ==
    LET id == FreshId(db)
        kid == [id |-> id, userId |-> userId, name |-> insertKid.name,
                avatar |-> insertKid.avatar]
        Mark(v) == IF v.userId = userId /\ v.folderId = None
                   THEN [v EXCEPT !.assigned = Put(@, id, TRUE),
                                  !.progress = Put(@, id, NotWatched)]
                   ELSE v
    IN  [db EXCEPT !.kids = @ \cup {kid},
                   !.videos = {Mark(v) : v \in @},
                   !.nextId = @ + 1]

\* createKid: the new row, then assigned and progress on every video of the owner
createKid(db, insertKid, userId) ==
    LET id == FreshId(db)
        kid == [id |-> id, userId |-> userId, name |-> insertKid.name,
                avatar |-> insertKid.avatar]
        Mark(v) == IF v.userId = userId
                   THEN [v EXCEPT !.assigned = Put(@, id, TRUE),
                                  !.progress = Put(@, id, NotWatched)]
                   ELSE v
    IN  [db EXCEPT !.kids = @ \cup {kid},
                   !.videos = {Mark(v) : v \in @},
                   !.nextId = @ + 1]

\* getVideos(userId)
getVideos(db, userId) == {v \in db.videos : v.userId = userId}

\* db.update(videosTable).set(w.set).where(eq(videosTable.id, w.videoId)): one
\* store write, of the columns named in w.set
ApplyWrite(db, w) ==
    [db EXCEPT !.videos =
        {IF v.id = w.videoId
         THEN [f \in DOMAIN v |-> IF f \in DOMAIN w.set THEN w.set[f] ELSE v[f]]
         ELSE v : v \in @}]

RECURSIVE ApplyWrites(_, _)
ApplyWrites(db, writes) ==
    IF writes = <<>> THEN db
    ELSE ApplyWrites(ApplyWrite(db, Head(writes)), Tail(writes))

\* the writes of a loop over the selected videos, one per video; the rows
\* have different ids, so the order of the loop does not show in what the
\* writes leave together
RECURSIVE ByVideoId(_)
ByVideoId(writes) ==
    IF writes = {} THEN <<>>
    ELSE LET first == CHOOSE w \in writes : \A q \in writes : w.videoId <= q.videoId
         IN  <<first>> \o ByVideoId(writes \ {first})

\* the writes of markVideoWatched for a video it has read
WatchedWritesInTwo(video, kidId, voiceRecording, now) ==
    LET prev == IF kidId \in DOMAIN video.progress
                THEN Some(video.progress[kidId]) ELSE None
    IN  <<[videoId |-> video.id,
           set |-> [progress |-> Put(video.progress, kidId,
                                     WatchedProgress(prev, voiceRecording, now))]],
          [videoId |-> video.id,
           set |-> [totalViews |-> IF AlreadyWatched(video, kidId)
                                   THEN video.totalViews ELSE video.totalViews + 1]]>>

WatchedWrites(video, kidId, voiceRecording, now) ==
    LET prev == IF kidId \in DOMAIN video.progress
                THEN Some(video.progress[kidId]) ELSE None
    IN  <<[videoId |-> video.id,
           set |-> [progress |-> Put(video.progress, kidId,
                                     WatchedProgress(prev, voiceRecording, now)),
                    totalViews |-> IF AlreadyWatched(video, kidId)
                                   THEN video.totalViews ELSE video.totalViews + 1]]>>

\* saveVideoPosition: the progress map it builds from the row it has read;
\* today is new Date().toISOString().slice(0, 10), duration is optional
PositionProgressAnyIncrement(video, kidId, position, duration, today) ==
    LET entry == IF kidId \in DOMAIN video.progress
                 THEN video.progress[kidId] ELSE NotWatched
        prevPosition == IF entry.lastPosition = None THEN 0 ELSE entry.lastPosition[1]
        increment == IF position > prevPosition THEN position - prevPosition ELSE 0
        daily == entry.dailyWatchTime
    IN  Put(video.progress, kidId,
            [entry EXCEPT
                !.dailyWatchTime =
                    IF increment > 0
                    THEN Put(daily, today,
                             (IF today \in DOMAIN daily THEN daily[today] ELSE 0)
                                 + increment)
                    ELSE daily,
                !.lastPosition = Some(position),
                !.videoDuration = IF duration # None /\ duration[1] > 0
                                  THEN duration ELSE @])

PositionProgress(video, kidId, position, duration, today) ==
    LET entry == IF kidId \in DOMAIN video.progress
                 THEN video.progress[kidId] ELSE NotWatched
        prevPosition == IF entry.lastPosition = None THEN 0 ELSE entry.lastPosition[1]
        increment == IF position > prevPosition THEN position - prevPosition ELSE 0
        daily == entry.dailyWatchTime
    IN  Put(video.progress, kidId,
            [entry EXCEPT
                !.dailyWatchTime =
                    IF increment > 0 /\ increment < 30
                    THEN Put(daily, today,
                             (IF today \in DOMAIN daily THEN daily[today] ELSE 0)
                                 + increment)
                    ELSE daily,
                !.lastPosition = Some(position),
                !.videoDuration = IF duration # None /\ duration[1] > 0
                                  THEN duration ELSE @])

PositionWrites(video, kidId, position, duration, today) ==
    <<[videoId |-> video.id,
       set |-> [progress |-> PositionProgress(video, kidId, position, duration, today)]]>>

\* saveVideoPosition(videoId, kidId, position, userId, duration)
saveVideoPosition(db, videoId, kidId, position, userId, duration, today) ==
    LET rows == {v \in db.videos : v.id = videoId /\ v.userId = userId} IN
    IF rows = {} THEN [ok |-> FALSE, db |-> db]
    ELSE [ok |-> TRUE,
          db |-> ApplyWrites(db, PositionWrites(CHOOSE v \in rows : TRUE, kidId,
                                                position, duration, today))]

\* prog?.watched && prog?.parentReviewed === false
UnreviewedAnyWatched(prog) == prog.watched

Unreviewed(prog) == prog.watched /\ prog.parentReviewed = Some(FALSE)

\* getBadgeCountForParent(userId)
getBadgeCountForParent(db, userId) ==
    Cardinality(UNION {{<<v.id, kidId>> :
                           kidId \in {k \in DOMAIN v.progress : Unreviewed(v.progress[k])}} :
                       v \in getVideos(db, userId)})

\* clearParentBadge: the videos with an entry to review, each written once
ClearBadgeWrites(videos) ==
    LET changed == {v \in videos : \E kidId \in DOMAIN v.progress :
                                      Unreviewed(v.progress[kidId])}
        Reviewed(v) == [kidId \in DOMAIN v.progress |->
                          IF Unreviewed(v.progress[kidId])
                          THEN [v.progress[kidId] EXCEPT !.parentReviewed = Some(TRUE)]
                          ELSE v.progress[kidId]]
    IN  ByVideoId({[videoId |-> v.id, set |-> [progress |-> Reviewed(v)]] : v \in changed})

\* clearParentBadge(userId)
clearParentBadge(db, userId) ==
    ApplyWrites(db, ClearBadgeWrites(getVideos(db, userId)))

\* createKid after its insert: the writes for the videos it has read
CreateKidWrites(videos, id) ==
    ByVideoId({[videoId |-> v.id,
                set |-> [assigned |-> Put(v.assigned, id, TRUE),
                         progress |-> Put(v.progress, id, NotWatched)]] : v \in videos})

\* updateKid(id, userId, {name}): null when the owner has no such kid
updateKid(db, id, userId, name) ==
    LET rows == {k \in db.kids : k.id = id /\ k.userId = userId} IN
    IF rows = {} THEN [ok |-> FALSE, db |-> db]
    ELSE [ok |-> TRUE,
          db |-> [db EXCEPT !.kids = (@ \ rows) \cup {[k EXCEPT !.name = name] : k \in rows}]]

\* a folder name is its reserved prefix, if it has one, and the rest:
\* `__global_${masterFolderId}` is <<"__global_", masterFolderId>>
localFolderName(masterFolderId) == <<"__global_", masterFolderId>>

\* name.startsWith("__global_")
StartsWithGlobal(name) == name # <<>> /\ Head(name) = "__global_"

getFolder(db, id, userId) ==
    SelectSeq(db.folders, LAMBDA f : f.id = id /\ f.userId = userId)

\* createFolder; pos is where the heap puts the row
createFolder(db, insertFolder, userId, pos) ==
    [db EXCEPT !.folders = InsertAt(@, pos, [id |-> FreshId(db), userId |-> userId,
                                             name |-> insertFolder.name]),
               !.nextId = @ + 1]

\* updateFolder: the update writes a new version of the row, which the heap
\* puts at pos once the old version is gone
updateFolder(db, id, userId, updates, pos) ==
    IF getFolder(db, id, userId) = <<>> THEN [ok |-> FALSE, db |-> db]
    ELSE LET others == SelectSeq(db.folders,
                                 LAMBDA f : ~(f.id = id /\ f.userId = userId))
             row == [id |-> id, userId |-> userId, name |-> updates.name]
         IN  [ok |-> TRUE,
              db |-> [db EXCEPT !.folders = InsertAt(others, pos, row)]]

deleteFolderCascading(db, id, userId) ==
    [db EXCEPT
        !.videos = {v \in @ : ~(v.folderId = Some(id) /\ v.userId = userId)},
        !.folders = SelectSeq(@, LAMBDA f : ~(f.id = id /\ f.userId = userId))]

\* deleteFolder(id, userId): the owner's videos leave the folder, then the row goes
deleteFolder(db, id, userId) ==
    [db EXCEPT
        !.videos = {IF v.folderId = Some(id) /\ v.userId = userId
                    THEN [v EXCEPT !.folderId = None] ELSE v : v \in @},
        !.folders = SelectSeq(@, LAMBDA f : ~(f.id = id /\ f.userId = userId))]

getGlobalFoldersUnfiltered(db, masterUserId) ==
    SelectSeq(db.folders, LAMBDA f : f.userId = masterUserId)

getGlobalFolders(db, masterUserId) ==
    SelectSeq(db.folders,
              LAMBDA f : f.userId = masterUserId /\ ~StartsWithGlobal(f.name))

getGlobalVideos(db, masterUserId, folderId) ==
    {v \in db.videos : v.userId = masterUserId /\ v.folderId = Some(folderId)}

getSubscriptions(db, userId) == {s \in db.subs : s.userId = userId}

\* the rows of a subscriber for one master folder
SubscriptionRows(db, userId, masterFolderId) ==
    {s \in db.subs : s.userId = userId /\ s.masterFolderId = masterFolderId}

\* rows[0] of a selection from a table kept as a set
FirstRow(rows) == CHOOSE r \in rows : \A q \in rows : r.id <= q.id

\* the rows of the shadow folder's name, in heap order
LocalFolderRowsNotFound(db, userId, masterFolderId) == <<>>

LocalFolderRows(db, userId, masterFolderId) ==
    SelectSeq(db.folders,
              LAMBDA f : f.userId = userId /\ f.name = localFolderName(masterFolderId))

\* new Set(existingLocal.map(v => v.ytId)): the ytIds already in the local folder
ExistingYtIdsForgotten(db, userId, localFolderId) == {}

ExistingYtIds(db, userId, localFolderId) ==
    {v.ytId : v \in {w \in db.videos :
                        w.userId = userId /\ w.folderId = Some(localFolderId)}}

\* db.insert(videosTable).values(...) for each of the rows
insertVideosReassigning(videos, rows) ==
    rows \cup {IF \E r \in rows : r.userId = v.userId /\ r.folderId = v.folderId
               THEN [v EXCEPT !.assigned =
                        (CHOOSE r \in rows : r.userId = v.userId
                                             /\ r.folderId = v.folderId).assigned]
               ELSE v : v \in videos}

insertVideos(videos, rows) == videos \cup rows

\* the row syncSubscription inserts for the master video mv
ReplicatedVideoKeepsViews(mv, id, userId, localFolderId, targetKids) ==
    [id |-> id, userId |-> userId, url |-> mv.url,
     ytId |-> mv.ytId, platform |-> mv.platform,
     folderId |-> Some(localFolderId), priority |-> mv.priority,
     assigned |-> FreshAssigned(targetKids),
     progress |-> FreshProgress(targetKids),
     totalViews |-> mv.totalViews]

ReplicatedVideo(mv, id, userId, localFolderId, targetKids) ==
    [id |-> id, userId |-> userId, url |-> mv.url,
     ytId |-> mv.ytId, platform |-> mv.platform,
     folderId |-> Some(localFolderId), priority |-> mv.priority,
     assigned |-> FreshAssigned(targetKids),
     progress |-> FreshProgress(targetKids),
     totalViews |-> 0]

\* syncSubscription(userId, masterFolderId, masterUserId); the copies get
\* their ids in the order of the master's rows
syncSubscription(db, userId, masterFolderId, masterUserId) ==
    LET sub == SubscriptionRows(db, userId, masterFolderId)
        masterFolder == getFolder(db, masterFolderId, masterUserId)
    IN
    IF sub = {} \/ masterFolder = <<>> THEN db
    ELSE
      LET kidIds == FirstRow(sub).kidIds
          targetKids == TargetKids(kidIds, getKids(db, userId))
          localFolderRows == LocalFolderRows(db, userId, masterFolderId)
          made == localFolderRows = <<>>
          localFolderId == IF made THEN FreshId(db) ELSE localFolderRows[1].id
          first == IF made THEN db.nextId + 1 ELSE db.nextId
          folders == IF made
                     THEN Append(db.folders,
                                 [id |-> localFolderId, userId |-> userId,
                                  name |-> localFolderName(masterFolderId)])
                     ELSE db.folders
          masterVideos == getGlobalVideos(db, masterUserId, masterFolderId)
          existingYtIds == ExistingYtIds(db, userId, localFolderId)
          missing == {mv \in masterVideos : mv.ytId \notin existingYtIds}
          Before(mv) == Cardinality({w \in missing : w.id < mv.id})
          Copy(mv) == ReplicatedVideo(mv, first + Before(mv), userId,
                                      localFolderId, targetKids)
      IN  [db EXCEPT !.folders = folders,
                     !.videos = insertVideos(@, {Copy(mv) : mv \in missing}),
                     !.nextId = first + Cardinality(missing)]

\* subscribe(userId, masterFolderId, kidIds, masterUserId); the clock that
\* stamps createdAt is the one the id is made from
subscribeAlwaysInserts(db, userId, masterFolderId, kidIds, masterUserId) ==
    syncSubscription(
        [db EXCEPT !.subs = @ \cup {[id |-> FreshId(db), userId |-> userId,
                                     masterFolderId |-> masterFolderId,
                                     kidIds |-> kidIds, createdAt |-> db.nextId]},
                   !.nextId = @ + 1],
        userId, masterFolderId, masterUserId)

subscribeWithoutSync(db, userId, masterFolderId, kidIds, masterUserId) ==
    LET existing == SubscriptionRows(db, userId, masterFolderId) IN
    IF existing # {}
    THEN [db EXCEPT !.subs = {IF s.id = FirstRow(existing).id
                              THEN [s EXCEPT !.kidIds = kidIds] ELSE s : s \in @}]
    ELSE [db EXCEPT !.subs = @ \cup {[id |-> FreshId(db), userId |-> userId,
                                      masterFolderId |-> masterFolderId,
                                      kidIds |-> kidIds, createdAt |-> db.nextId]},
                    !.nextId = @ + 1]

subscribe(db, userId, masterFolderId, kidIds, masterUserId) ==
    LET existing == SubscriptionRows(db, userId, masterFolderId) IN
    IF existing # {}
    THEN syncSubscription(
            [db EXCEPT !.subs = {IF s.id = FirstRow(existing).id
                                 THEN [s EXCEPT !.kidIds = kidIds] ELSE s : s \in @}],
            userId, masterFolderId, masterUserId)
    ELSE syncSubscription(
            [db EXCEPT !.subs = @ \cup {[id |-> FreshId(db), userId |-> userId,
                                         masterFolderId |-> masterFolderId,
                                         kidIds |-> kidIds, createdAt |-> db.nextId]},
                       !.nextId = @ + 1],
            userId, masterFolderId, masterUserId)

unsubscribe(db, userId, masterFolderId) ==
    LET sub == SubscriptionRows(db, userId, masterFolderId)
        localFolder == LocalFolderRows(db, userId, masterFolderId)
    IN
    IF sub = {} THEN db
    ELSE LET cleared ==
               IF localFolder # <<>>
               THEN [db EXCEPT
                       !.videos = {v \in @ : ~(v.userId = userId
                                               /\ v.folderId = Some(localFolder[1].id))},
                       !.folders = SelectSeq(@, LAMBDA f : f.id # localFolder[1].id)]
               ELSE db
         IN  [cleared EXCEPT !.subs = {s \in @ : s.id # FirstRow(sub).id}]

\* syncAllSubscriptions: one syncSubscription per row, in the order of the rows
RECURSIVE syncEach(_, _, _, _)
syncEach(db, userId, masterUserId, subs) ==
    IF subs = {} THEN db
    ELSE LET sub == FirstRow(subs)
         IN  syncEach(syncSubscription(db, userId, sub.masterFolderId, masterUserId),
                      userId, masterUserId, subs \ {sub})

syncAllSubscriptions(db, userId, masterUserId) ==
    syncEach(db, userId, masterUserId, getSubscriptions(db, userId))

cleanupGlobalDataKeepingSubscriptions(db, userId) ==
    LET globalFolders == {f.id : f \in {g \in Range(db.folders) :
                             g.userId = userId /\ StartsWithGlobal(g.name)}}
    IN  [db EXCEPT
           !.videos = {v \in @ : ~(v.userId = userId /\ v.folderId # None
                                   /\ v.folderId[1] \in globalFolders)},
           !.folders = SelectSeq(@, LAMBDA f : f.id \notin globalFolders)]

cleanupGlobalData(db, userId) ==
    LET globalFolders == {f.id : f \in {g \in Range(db.folders) :
                             g.userId = userId /\ StartsWithGlobal(g.name)}}
    IN  [db EXCEPT
           !.videos = {v \in @ : ~(v.userId = userId /\ v.folderId # None
                                   /\ v.folderId[1] \in globalFolders)},
           !.folders = SelectSeq(@, LAMBDA f : f.id \notin globalFolders),
           !.subs = {s \in @ : s.userId # userId}]

----------------------------------------------------------------------------
(* server/routes.ts: the catalog and subscription routes.  Each yields the *)
(* response and the database it leaves.                                    *)

Reply(status, error, db) == [status |-> status, error |-> error, db |-> db]

AVATARS == {"child", "girl", "boy", "baby", "cool", "robot"}

\* a kid's name is <<what name.trim().toLowerCase() gives, the spelling>>;
\* the empty string is the spelling 0 of ""
\* the spellings of a name: 0 is the trimmed lower-case one, 1 has upper-case
\* letters, 2 and 3 are 0 and 1 with spaces around; <<"", 2>> is only spaces
EmptyName == <<"", 0>>
Trimmed(name) == <<name[1], name[2] % 2>>

\* name.trim().toLowerCase()
NormalNameAsSpelled(name) == name

NormalName(name) == name[1]

ZodError == "<zod issues>"

\* DELETE /api/kids/:id
DeleteKidsId(db, userId, id) == Reply(204, "", deleteKid(db, id, userId))

\* POST /api/kids
PostKids(db, userId, body) ==
    IF body.name = EmptyName \/ body.avatar \notin AVATARS
    THEN Reply(400, ZodError, db)
    ELSE IF Cardinality(getKids(db, userId)) >= MAX_KIDS
    THEN Reply(400, "Maximum 6 kids allowed", db)
    ELSE IF \E k \in getKids(db, userId) : NormalName(k.name) = NormalName(body.name)
    THEN Reply(400, "A kid with this name already exists", db)
    ELSE Reply(201, "", createKid(db, body, userId))

\* PATCH /api/kids/:id
PatchKidsId(db, userId, id, body) ==
    IF Trimmed(body.name) = EmptyName THEN Reply(400, "Name is required", db)
    ELSE IF \E k \in getKids(db, userId) :
               k.id # id /\ NormalName(k.name) = NormalName(body.name)
    THEN Reply(400, "A kid with this name already exists", db)
    ELSE LET r == updateKid(db, id, userId, Trimmed(body.name))
         IN  IF r.ok THEN Reply(200, "", r.db) ELSE Reply(404, "Kid not found", db)

\* POST /api/kids/cleanup-duplicates.  grouped.get(key): the kids that share
\* kid's name.toLowerCase().trim()
Group(kids, kid) == {k \in kids : NormalName(k.name) = NormalName(kid.name)}

\* group.sort((a, b) => a.id.localeCompare(b.id))[0]
Keeper(kids, kid) ==
    CHOOSE k \in Group(kids, kid) : \A j \in Group(kids, kid) : k.id <= j.id

KidOf(kids, id) == CHOOSE k \in kids : k.id = id

\* the ids pushed to deleteIds
DupIds(kids) == {k.id : k \in {j \in kids : Keeper(kids, j).id # j.id}}

\* deleteIds: group after group in the order the select returned the kids,
\* which the query does not fix; inside a group by ascending id
DeleteIdOrders(kids) ==
    LET Same(a, b) == Group(kids, KidOf(kids, a)) = Group(kids, KidOf(kids, b)) IN
    {s \in [1..Cardinality(DupIds(kids)) -> DupIds(kids)] :
        /\ \A i \in DOMAIN s, j \in DOMAIN s : i # j => s[i] # s[j]
        /\ \A i \in DOMAIN s, j \in DOMAIN s :
              i < j /\ Same(s[i], s[j]) => s[i] < s[j]
        /\ \A i \in DOMAIN s, j \in DOMAIN s, k \in DOMAIN s :
              i < j /\ j < k /\ Same(s[i], s[k]) => Same(s[i], s[j])}

\* delete video.assigned[dupId]
DeleteKey(m, k) == [j \in (DOMAIN m) \ {k} |-> m[j]]

\* the body of the loop over the videos, for one duplicate
MergeDupOverwriting(video, keeperId, dupId) ==
    [video EXCEPT
        !.assigned = IF dupId \in DOMAIN @ /\ @[dupId]
                     THEN DeleteKey(Put(@, keeperId, TRUE), dupId) ELSE @,
        !.progress = IF dupId \in DOMAIN @
                     THEN DeleteKey(Put(@, keeperId, @[dupId]), dupId) ELSE @]

MergeDup(video, keeperId, dupId) ==
    [video EXCEPT
        !.assigned = IF dupId \in DOMAIN @ /\ @[dupId]
                     THEN DeleteKey(Put(@, keeperId, TRUE), dupId) ELSE @,
        !.progress = IF dupId \in DOMAIN @
                     THEN DeleteKey(IF keeperId \in DOMAIN @ /\ @[keeperId].watched
                                    THEN @ ELSE Put(@, keeperId, @[dupId]),
                                    dupId)
                     ELSE @]

\* the loops over the groups and their duplicates, seen from one video
RECURSIVE MergeDups(_, _, _)
MergeDups(video, kids, deleteIds) ==
    IF deleteIds = <<>> THEN video
    ELSE MergeDups(MergeDup(video, Keeper(kids, KidOf(kids, deleteIds[1])).id,
                            deleteIds[1]),
                   kids, Tail(deleteIds))

\* what the handler holds when the merge is computed: the merged videos,
\* those of them not yet written, deleteIds and how many of them are deleted
CleanupJob(db, userId, deleteIds) ==
    LET videos == {MergeDups(v, getKids(db, userId), deleteIds) :
                      v \in getVideos(db, userId)}
    IN  [userId |-> userId, videos |-> videos, pending |-> videos,
         deleteIds |-> deleteIds, deleted |-> 0]

\* db.update(videosTable).set({assigned, progress}).where(eq(videosTable.id, video.id))
writeMerged(db, video) ==
    [db EXCEPT !.videos = {IF v.id = video.id
                           THEN [v EXCEPT !.assigned = video.assigned,
                                          !.progress = video.progress]
                           ELSE v : v \in @}]

\* where the handler stands: the loop of the writes, then the loop of the
\* deletions, then the response
CleanupPcDeletingFirst(job) ==
    IF job.deleted < Len(job.deleteIds) THEN "delete"
    ELSE IF job.pending # {} THEN "write" ELSE "respond"

CleanupPc(job) ==
    IF job.pending # {} THEN "write"
    ELSE IF job.deleted < Len(job.deleteIds) THEN "delete" ELSE "respond"

\* the handler run from where it stands to its response; the rows it writes
\* have different ids, so the order of the writes does not show in the result
RECURSIVE cleanupRun(_, _)
cleanupRun(db, job) ==
    IF CleanupPc(job) = "write"
    THEN LET video == CHOOSE v \in job.pending : TRUE IN
         cleanupRun(writeMerged(db, video), [job EXCEPT !.pending = @ \ {video}])
    ELSE IF CleanupPc(job) = "delete"
    THEN cleanupRun(deleteKid(db, job.deleteIds[job.deleted + 1], job.userId),
                    [job EXCEPT !.deleted = @ + 1])
    ELSE db

CleanupReply(removed, db) ==
    [status |-> 200, error |-> "", db |-> db, removed |-> removed]

PostKidsCleanupDuplicates(db, userId, deleteIds) ==
    IF DupIds(getKids(db, userId)) = {} THEN CleanupReply(0, db)
    ELSE LET job == CleanupJob(db, userId, deleteIds) IN
         CleanupReply(Len(job.deleteIds), cleanupRun(db, job))

\* POST /api/folders
PostFolders(db, userId, body, pos) ==
    IF body.name = <<>> THEN Reply(400, ZodError, db)
    ELSE Reply(201, "", createFolder(db, body, userId, pos))

\* PATCH /api/folders/:id
PatchFoldersId(db, userId, id, body, pos) ==
    IF body.name = <<>> THEN Reply(400, "Name is required", db)
    ELSE LET r == updateFolder(db, id, userId, [name |-> body.name], pos)
         IN  IF r.ok THEN Reply(200, "", r.db)
             ELSE Reply(404, "Folder not found", db)

\* DELETE /api/folders/:id
DeleteFoldersId(db, userId, id) == Reply(204, "", deleteFolder(db, id, userId))

\* GET /api/videos: the master's shadow data is cleaned once per process, a
\* subscriber's subscriptions are synchronised on every call
GetVideos(db, cleaned, userId) ==
    IF userId = MASTER_USER_ID
    THEN (IF userId \notin cleaned
          THEN Reply(200, "", cleanupGlobalData(db, userId))
          ELSE Reply(200, "", db))
    ELSE Reply(200, "", syncAllSubscriptions(db, userId, MASTER_USER_ID))

\* A JSON value given as priority: the number whole + half/2 (half is 0 or
\* 1), the same number as a string, or a value that is no number at all
\* (null, true, "high").
Num(n) == [type |-> "number", whole |-> n, half |-> 0]
Half(n) == [type |-> "number", whole |-> n, half |-> 1]
Text(n) == [type |-> "string", whole |-> n, half |-> 0]
NotNumeric == [type |-> "other", whole |-> 0, half |-> 0]

\* parseInt(priority): the integer the text of the value starts with, NaN
\* (None) when it starts with none; -0.5 reads as -0
ParseInt(json) ==
    IF json.type = "other" THEN None
    ELSE IF json.whole < 0 /\ json.half = 1 THEN Some(json.whole + 1)
    ELSE Some(json.whole)

\* z.number().min(1).max(9): a number of the range, whole or not
ZodPriority(json) ==
    /\ json.type = "number"
    /\ json.whole >= VIDEO_PRIORITY_MIN
    /\ json.whole < VIDEO_PRIORITY_MAX \/ (json.whole = VIDEO_PRIORITY_MAX /\ json.half = 0)

\* integer("priority").notNull(): the column takes whole numbers, and a
\* statement that binds anything else throws
IntegerColumn(json) == json.type = "number" /\ json.half = 0

\* POST /api/videos; body.priority is absent or a JSON value
PostVideos(db, userId, body) ==
    IF \/ body.url.host = <<>>
       \/ body.priority # None /\ ~ZodPriority(body.priority[1])
    THEN Reply(400, ZodError, db)
    ELSE LET result == createVideo(db, body.url, body.kidIds, getKids(db, userId),
                                   userId, body.folderId,
                                   IF body.priority = None
                                   THEN Some(VIDEO_PRIORITY_DEFAULT)
                                   ELSE Some(body.priority[1].whole))
         IN  IF ~result.ok THEN Reply(400, result.error, db)
             ELSE IF body.priority # None /\ ~IntegerColumn(body.priority[1])
             THEN Reply(500, "Failed to create video", db)
             ELSE Reply(201, "", result.db)

ClampPriorityFromAbove(p) ==
    IF p > VIDEO_PRIORITY_MAX THEN VIDEO_PRIORITY_MAX ELSE p

\* Math.min(9, Math.max(1, p))
ClampPriority(p) ==
    IF p < VIDEO_PRIORITY_MIN THEN VIDEO_PRIORITY_MIN
    ELSE IF p > VIDEO_PRIORITY_MAX THEN VIDEO_PRIORITY_MAX ELSE p

\* PATCH /api/videos/:id; with a priority that parseInt does not read,
\* updates.priority is NaN: updateVideo answers null for a video that is not
\* the caller's, and its update of the integer column throws otherwise
PatchVideosId(db, userId, id, body) ==
    LET parsed == IF body.priority = None THEN None ELSE ParseInt(body.priority[1])
        r == updateVideo(db, id, userId,
                         IF parsed = None THEN None
                         ELSE Some(ClampPriority(parsed[1])),
                         body.folderId)
    IN  IF ~r.ok THEN Reply(404, "Video not found", db)
        ELSE IF body.priority # None /\ parsed = None
        THEN Reply(500, "Failed to update video", db)
        ELSE Reply(200, "", r.db)

\* DELETE /api/videos/:id
DeleteVideosId(db, userId, id) == Reply(204, "", deleteVideo(db, id, userId))

\* POST /api/global/subscribe
PostGlobalSubscribe(db, userId, body) ==
    IF userId = MASTER_USER_ID
    THEN Reply(400, "You already own these playlists", db)
    ELSE IF \A i \in DOMAIN getGlobalFolders(db, MASTER_USER_ID) :
               getGlobalFolders(db, MASTER_USER_ID)[i].id # body.masterFolderId
    THEN Reply(404, "Playlist not found", db)
    ELSE Reply(201, "", subscribe(db, userId, body.masterFolderId, body.kidIds,
                                  MASTER_USER_ID))

\* POST /api/global/unsubscribe
PostGlobalUnsubscribe(db, userId, body) ==
    Reply(200, "", unsubscribe(db, userId, body.masterFolderId))

\* POST /api/global/sync
PostGlobalSync(db, userId, body) ==
    Reply(200, "", syncSubscription(db, userId, body.masterFolderId, MASTER_USER_ID))

\* the database a request leaves, written back
Store(db) ==
    /\ kidsTable' = db.kids
    /\ foldersTable' = db.folders
    /\ videosTable' = db.videos
    /\ globalSubscriptionsTable' = db.subs
    /\ nextId' = db.nextId
    /\ UNCHANGED completions

\* a request served, its response kept
Serve(op, r) ==
    /\ last' = Response(op, r.status, r.error)
    /\ Store(r.db)
    /\ UNCHANGED inFlight

----------------------------------------------------------------------------
(* Request inputs *)

Users == {"A", "B", MASTER_USER_ID}
Times == 1..MaxTime
Durations == (0 - 1)..MaxDuration
VoiceBodies ==
    {None, Some([recordedAt |-> NotAString, duration |-> 1])}
        \cup {Some([recordedAt |-> "t", duration |-> d]) : d \in Durations}
OneRecording == [recordedAt |-> "t", duration |-> 1]

\* the accepted completions of a video after the step
AcceptedNext(videoId) ==
    Cardinality({i \in DOMAIN completions' : completions'[i][1] = videoId})

----------------------------------------------------------------------------
(* The progress engine on one video of owner "A", assigned to all the kids *)
(* of "A".  A row written before the voiceRecordings list existed carries  *)
(* the single voiceRecording field.                                        *)

CapKids == 1..(MAX_VIDEO_VIEWS + 1)
WatchVideo == MAX_VIDEO_VIEWS + 2
UnknownId == MAX_VIDEO_VIEWS + 3
RewatchKids == 1..2

KidNames == <<"ann", "bob", "cat", "dan", "eve", "fay">>

LegacyRecording == [recordedAt |-> "legacy", duration |-> 1]
LegacyProgress ==
    [EmptyProgress EXCEPT !.watched = TRUE, !.watchedAt = Some(0),
                          !.voiceRecording = Some(LegacyRecording)]

InitProgress(kids) ==
    \E legacy \in SUBSET {1} :
      /\ kidsTable = {[id |-> k, userId |-> "A", name |-> <<KidNames[k], 0>>,
                       avatar |-> "child"] : k \in kids}
      /\ foldersTable = <<>>
      /\ videosTable =
            {[id |-> WatchVideo, userId |-> "A",
              url |-> Url(<<"youtu", "be">>, <<"abc">>, None),
              ytId |-> "abc", platform |-> "youtube", folderId |-> None,
              priority |-> VIDEO_PRIORITY_DEFAULT,
              assigned |-> [k \in kids |-> TRUE],
              progress |-> [k \in kids |->
                              IF k \in legacy THEN LegacyProgress ELSE NotWatched],
              totalViews |-> Cardinality(legacy)]}
      /\ globalSubscriptionsTable = {}
      /\ masterCleanedUp = {}
      /\ nextId = UnknownId + 1
      /\ last = Response("none", 0, "")
      /\ completions = IF legacy = {} THEN <<>> ELSE << <<WatchVideo, 1>> >>
      /\ inFlight = Idle

WatchFrame ==
    UNCHANGED <<kidsTable, foldersTable, globalSubscriptionsTable,
                masterCleanedUp, nextId, inFlight>>

(* SpecCap: MAX_VIDEO_VIEWS + 1 kids (and an id that is no kid), one       *)
(* recording value, the authenticated route.                               *)

InitCap == InitProgress(CapKids)

CapWatched ==
    \E userId \in {"A", "B"}, videoId \in {WatchVideo, UnknownId},
       kidId \in CapKids \cup {UnknownId} :
        /\ Complete("watched", videoId, kidId,
                    PostWatched(userId, videoId, kidId, Some(OneRecording), 1))
        /\ AcceptedNext(WatchVideo) <= MaxAccepted
        /\ WatchFrame

NextCap == CapWatched

SpecCap == InitCap /\ [][NextCap]_vars

(* SpecWatch: two kids, every request body, both routes.                   *)

InitWatch == InitProgress(RewatchKids)

WatchRequests ==
    {<<"A", WatchVideo>>, <<"B", WatchVideo>>, <<"A", UnknownId>>}

Watched ==
    \E req \in WatchRequests, kidId \in RewatchKids \cup {UnknownId},
       body \in VoiceBodies, now \in Times :
        /\ Complete("watched", req[2], kidId,
                    PostWatched(req[1], req[2], kidId, body, now))
        /\ AcceptedNext(WatchVideo) <= MaxRewatch
        /\ WatchFrame

WatchedPublic ==
    \E videoId \in {WatchVideo, UnknownId},
       kidId \in RewatchKids \cup {UnknownId}, body \in VoiceBodies, now \in Times :
        /\ Complete("watchedPublic", videoId, kidId,
                    PostWatchedPublic(videoId, kidId, body, now))
        /\ AcceptedNext(WatchVideo) <= MaxRewatch
        /\ WatchFrame

NextWatch == Watched \/ WatchedPublic

SpecWatch == InitWatch /\ [][NextWatch]_vars

----------------------------------------------------------------------------
(* Properties of the progress engine *)

\* the video of SpecCap and SpecWatch, and what a response leaves of it
Watch == CHOOSE v \in videosTable : v.id = WatchVideo
WatchAfter(r) == CHOOSE v \in r.videos : v.id = WatchVideo

HasWatched(video, kidId) ==
    kidId \in DOMAIN video.progress /\ video.progress[kidId].watched

\* a body the routes are to accept: a recording with a string recordedAt
\* and a duration > 0
GoodBody(body) ==
    body # None /\ body[1].recordedAt # NotAString /\ body[1].duration > 0

\* the kid of the newest accepted completion had completed the video before
LastWasRewatch ==
    /\ completions # <<>>
    /\ \E i \in 1..(Len(completions) - 1) :
          completions[i] = completions[Len(completions)]

\* the responses to a completion request for the video in its owner's scope:
\* on the authenticated route by the owner, on the public route for one of
\* the owner's kids
CompletionResponses(kidId, body, now) ==
    {PostWatched("A", WatchVideo, kidId, body, now)} \cup
    (IF \E k \in kidsTable : k.id = kidId /\ k.userId = "A"
     THEN {PostWatchedPublic(WatchVideo, kidId, body, now)} ELSE {})

\* C1: once MAX_VIDEO_VIEWS distinct kids have completed the video, totalViews
\* is MAX_VIDEO_VIEWS, and a completion request by any further kid is answered
\* with the view-cap error and leaves the videos table (progress, recordings,
\* totalViews) as it was.
C1_ViewCap ==
    \A kidId \in CapKids \cup {UnknownId} :
        ( /\ Cardinality(Completers(WatchVideo)) = MAX_VIDEO_VIEWS
          /\ kidId \notin Completers(WatchVideo) )
        => LET r == PostWatched("A", WatchVideo, kidId, Some(OneRecording), 1)
           IN  /\ Watch.totalViews = MAX_VIDEO_VIEWS
               /\ r.status = 400
               /\ r.error = CapError
               /\ r.videos = videosTable

C1_Witness ==
    /\ last = Response("watched", 400, CapError)
    /\ Cardinality(Completers(WatchVideo)) = MAX_VIDEO_VIEWS
    /\ Watch.totalViews = MAX_VIDEO_VIEWS
    /\ \E kidId \in CapKids : ~HasWatched(Watch, kidId)

\* the recordings list after the legacy single recording, if it is the only
\* one stored, has been moved into it
StoredRecordings(p) ==
    IF p.voiceRecordings = <<>> /\ p.voiceRecording # None
    THEN <<p.voiceRecording[1]>> ELSE p.voiceRecordings

\* C2 as stated: a re-watch with a valid recording succeeds, leaves totalViews
\* and watchedAt alone and makes the voiceRecordings list exactly one longer,
\* the new recording last.
C2_RewatchGrowsListByOne ==
    [][\A kidId \in RewatchKids, body \in VoiceBodies, now \in Times :
          ( /\ GoodBody(body)
            /\ HasWatched(Watch, kidId)
            /\ \/ Complete("watched", WatchVideo, kidId,
                           PostWatched("A", WatchVideo, kidId, body, now))
               \/ Complete("watchedPublic", WatchVideo, kidId,
                           PostWatchedPublic(WatchVideo, kidId, body, now)) )
          => /\ last'.status = 200
             /\ WatchAfter([videos |-> videosTable']).totalViews = Watch.totalViews
             /\ WatchAfter([videos |-> videosTable']).progress[kidId].watchedAt
                   = Watch.progress[kidId].watchedAt
             /\ WatchAfter([videos |-> videosTable']).progress[kidId].voiceRecordings
                   = Append(Watch.progress[kidId].voiceRecordings, body[1])]_vars

\* C2 (amended): a re-watch with a valid recording succeeds, leaves totalViews
\* and watchedAt alone and appends the new recording to the recordings stored
\* for the kid, where an entry that holds only the legacy single recording
\* counts as storing that one recording (the list then goes from empty to
\* [legacy, new]).
C2_RewatchAppends ==
    \A kidId \in RewatchKids \cup {UnknownId}, body \in VoiceBodies, now \in Times :
        (GoodBody(body) /\ HasWatched(Watch, kidId))
        => \A r \in CompletionResponses(kidId, body, now) :
              /\ r.status = 200
              /\ WatchAfter(r).totalViews = Watch.totalViews
              /\ WatchAfter(r).progress[kidId].watchedAt
                    = Watch.progress[kidId].watchedAt
              /\ WatchAfter(r).progress[kidId].voiceRecordings
                    = Append(StoredRecordings(Watch.progress[kidId]), body[1])

C2_Witness ==
    /\ last.status = 200
    /\ LastWasRewatch
    /\ \E kidId \in RewatchKids :
          /\ completions[Len(completions)] = <<WatchVideo, kidId>>
          /\ Len(Watch.progress[kidId].voiceRecordings) = 2
          /\ Watch.progress[kidId].voiceRecordings[1].recordedAt = "t"
          /\ Watch.totalViews = 1

\* C3: the accepted completions of a video, re-watches included, never
\* number more than MAX_VIDEO_VIEWS.
C3_AtMostFourCompletions == Accepted(WatchVideo) <= MAX_VIDEO_VIEWS

C5_ZeroDurationRejected ==
    \A req \in WatchRequests, videoId \in {WatchVideo, UnknownId},
       kidId \in RewatchKids \cup {UnknownId}, body \in VoiceBodies, now \in Times :
        (body = None \/ body[1].duration <= 0)
        => \A r \in {PostWatched(req[1], req[2], kidId, body, now),
                     PostWatchedPublic(videoId, kidId, body, now)} :
              /\ r.status = 400
              /\ r.error = ValidationError
              /\ r.videos = videosTable

C5_Witness ==
    /\ last = Response("watchedPublic", 400, ValidationError)
    /\ Watch.totalViews = 1

----------------------------------------------------------------------------
(* The kids of owner "A" and the videos assigned to them.                  *)

MaxKidIds == 5          \* ids are handed out up to MaxKidIds

InitKids ==
    /\ kidsTable = {[id |-> k, userId |-> "A", name |-> <<KidNames[k], 0>>,
                     avatar |-> "child"] : k \in 1..2}
    /\ foldersTable = <<>>
    /\ videosTable =
          {[id |-> 3, userId |-> "A",
            url |-> Url(<<"youtu", "be">>, <<"abc">>, None),
            ytId |-> "abc", platform |-> "youtube", folderId |-> None,
            priority |-> VIDEO_PRIORITY_DEFAULT,
            assigned |-> [k \in 1..2 |-> TRUE],
            progress |-> [k \in 1..2 |-> NotWatched],
            totalViews |-> 0]}
    /\ globalSubscriptionsTable = {}
    /\ masterCleanedUp = {}
    /\ nextId = 4
    /\ last = Response("none", 0, "")
    /\ completions = <<>>
    /\ inFlight = Idle

KidBodies ==
    {[name |-> <<"ann", 1>>, avatar |-> "robot"],
     [name |-> <<"gus", 0>>, avatar |-> "robot"],
     [name |-> <<"gus", 0>>, avatar |-> "teen"],
     [name |-> EmptyName, avatar |-> "robot"]}

KidUrls == {Url(<<"www", "youtube", "com">>, <<"watch">>, Some("xyz")),
            Url(<<"example", "com">>, <<"abc">>, None)}

KidStep(op, r) ==
    /\ Serve(op, r)
    /\ r.db.nextId <= MaxKidIds + 1
    /\ UNCHANGED masterCleanedUp

CreateKid ==
    \E body \in KidBodies : KidStep("createKid", PostKids(DB, "A", body))

DeleteKidOf(userId, id) == KidStep("deleteKid", DeleteKidsId(DB, userId, id))

DeleteKid == \E userId \in {"A", "B"}, id \in 1..MaxKidIds : DeleteKidOf(userId, id)

KidCreateVideo ==
    \E url \in KidUrls, kidIds \in {None, Some(<<1, UnknownId>>)} :
        KidStep("createVideo",
                PostVideos(DB, "A", [url |-> url, kidIds |-> kidIds,
                                        folderId |-> None, priority |-> None]))

KidDeleteVideo ==
    \E id \in 1..MaxKidIds : KidStep("deleteVideo", DeleteVideosId(DB, "A", id))

KidWatched ==
    \E kidId \in 1..MaxKidIds, videoId \in 1..MaxKidIds :
        /\ Complete("watched", videoId, kidId,
                    PostWatched("A", videoId, kidId, Some(OneRecording), 1))
        /\ Len(completions') <= 1
        /\ WatchFrame

NextKids == CreateKid \/ DeleteKid \/ KidCreateVideo \/ KidDeleteVideo \/ KidWatched

SpecKids == InitKids /\ [][NextKids]_vars

----------------------------------------------------------------------------
(* The master's playlist and a subscriber.  The master "M" owns folder 1   *)
(* with one video; "A" owns kids 3 and 4.                                  *)

MaxSyncIds == 9         \* ids are handed out up to MaxSyncIds

MasterFolder == 1
SyncKids == {3, 4}

\* the master's own kid, who has watched the master's video
MasterKid == 0

\* the shadow folder the master account kept from a subscription it made
\* before it was the master
LegacyFolder == 0

InitSync ==
    /\ kidsTable = {[id |-> k, userId |-> "A", name |-> <<KidNames[k], 0>>,
                     avatar |-> "child"] : k \in SyncKids}
                   \cup {[id |-> MasterKid, userId |-> MASTER_USER_ID,
                          name |-> <<"max", 0>>, avatar |-> "robot"]}
    /\ foldersTable = <<[id |-> LegacyFolder, userId |-> MASTER_USER_ID,
                         name |-> localFolderName(UnknownId)],
                        [id |-> MasterFolder, userId |-> MASTER_USER_ID,
                         name |-> <<"Curated">>]>>
    /\ videosTable =
          {[id |-> 2, userId |-> MASTER_USER_ID,
            url |-> Url(<<"www", "youtube", "com">>, <<"watch">>, Some("abc")),
            ytId |-> "abc", platform |-> "youtube",
            folderId |-> Some(MasterFolder),
            priority |-> VIDEO_PRIORITY_MAX,
            assigned |-> [k \in {MasterKid} |-> TRUE],
            progress |-> [k \in {MasterKid} |->
                            WatchedProgress(Some(NotWatched), OneRecording, 1)],
            totalViews |-> 1]}
    /\ globalSubscriptionsTable = {}
    /\ masterCleanedUp = {}
    /\ nextId = 5
    /\ last = Response("none", 0, "")
    /\ completions = <<>>
    /\ inFlight = Idle

SyncUsers == {"A", MASTER_USER_ID}
SyncUrls == {Url(<<"youtu", "be">>, <<"abc">>, None),
             Url(<<"www", "youtube", "com">>, <<"shorts", "xyz">>, None)}
FolderNames == {<<"Mine">>, localFolderName(MasterFolder)}
FolderIds == {foldersTable[i].id : i \in DOMAIN foldersTable}
VideoIds == {v.id : v \in videosTable}

\* no id beyond max is handed out
WithinIds(max) == nextId' <= max + 1

\* the response goes to the client and no later request reads it
SyncStep(op, r) ==
    /\ Store(r.db)
    /\ UNCHANGED <<last, inFlight>>

CreateVideoBy(users) ==
    \E userId \in users, url \in SyncUrls :
        /\ SyncStep("createVideo",
                    PostVideos(DB, userId,
                               [url |-> url, kidIds |-> None,
                                folderId |-> IF userId = MASTER_USER_ID
                                             THEN Some(MasterFolder) ELSE None,
                                priority |-> None]))
        /\ UNCHANGED masterCleanedUp

CreateVideo == CreateVideoBy(SyncUsers)

MoveVideo ==
    \E id \in VideoIds, folderId \in {None} \cup {Some(f) : f \in FolderIds} :
        /\ SyncStep("updateVideo",
                    PatchVideosId(DB, "A", id,
                                  [priority |-> None, folderId |-> Some(folderId)]))
        /\ UNCHANGED masterCleanedUp

DeleteVideo ==
    \E userId \in SyncUsers, id \in VideoIds :
        /\ SyncStep("deleteVideo", DeleteVideosId(DB, userId, id))
        /\ UNCHANGED masterCleanedUp

CreateFolder ==
    \E name \in FolderNames :
        \E pos \in Positions(foldersTable, "A", name) :
            /\ SyncStep("createFolder", PostFolders(DB, "A", [name |-> name], pos))
            /\ UNCHANGED masterCleanedUp

RenameFolder ==
    \E id \in FolderIds, name \in FolderNames :
        \E pos \in Positions(SelectSeq(foldersTable, LAMBDA f : f.id # id), "A", name) :
            /\ SyncStep("updateFolder",
                        PatchFoldersId(DB, "A", id, [name |-> name], pos))
            /\ UNCHANGED masterCleanedUp

DeleteFolder ==
    \E id \in FolderIds :
        /\ SyncStep("deleteFolder", DeleteFoldersId(DB, "A", id))
        /\ UNCHANGED masterCleanedUp

SubscribeWith(lists) ==
    \E userId \in SyncUsers,
       masterFolderId \in {MasterFolder, LegacyFolder, UnknownId},
       kidIds \in lists :
        /\ Serve("subscribe",
                 PostGlobalSubscribe(DB, userId, [masterFolderId |-> masterFolderId,
                                                  kidIds |-> kidIds]))
        /\ UNCHANGED masterCleanedUp

Subscribe == SubscribeWith({<<>>, <<3>>})

UnsubscribeOf(userId, masterFolderId) ==
    /\ SyncStep("unsubscribe",
                PostGlobalUnsubscribe(DB, userId, [masterFolderId |-> masterFolderId]))
    /\ UNCHANGED masterCleanedUp

Unsubscribe == \E masterFolderId \in {MasterFolder, UnknownId} :
                   UnsubscribeOf("A", masterFolderId)

Sync ==
    \E masterFolderId \in {MasterFolder, UnknownId} :
        /\ SyncStep("sync", PostGlobalSync(DB, "A", [masterFolderId |-> masterFolderId]))
        /\ UNCHANGED masterCleanedUp

ListVideos ==
    \E userId \in SyncUsers :
        /\ SyncStep("listVideos", GetVideos(DB, masterCleanedUp, userId))
        /\ masterCleanedUp' = IF userId = MASTER_USER_ID
                              THEN masterCleanedUp \cup {userId}
                              ELSE masterCleanedUp

NextSync ==
    \/ CreateVideo /\ WithinIds(MaxSyncIds)
    \/ DeleteVideo /\ WithinIds(MaxSyncIds)
    \/ Subscribe /\ WithinIds(MaxSyncIds)
    \/ Unsubscribe /\ WithinIds(MaxSyncIds)
    \/ Sync /\ WithinIds(MaxSyncIds)
    \/ ListVideos /\ WithinIds(MaxSyncIds)

SpecSync == InitSync /\ [][NextSync]_vars

----------------------------------------------------------------------------
(* The subscriber's folders beside the shadow folder: every kid gets the   *)
(* playlist, the master adds videos, and "A" files videos and makes,       *)
(* renames and deletes folders.                                            *)

MaxFolderIds == 8       \* ids are handed out up to MaxFolderIds

MasterCreateVideo == CreateVideoBy({MASTER_USER_ID})
SubscribeAllKids == SubscribeWith({<<>>})

NextFolders ==
    \/ MasterCreateVideo /\ WithinIds(MaxFolderIds)
    \/ MoveVideo /\ WithinIds(MaxFolderIds)
    \/ CreateFolder /\ WithinIds(MaxFolderIds)
    \/ RenameFolder /\ WithinIds(MaxFolderIds)
    \/ DeleteFolder /\ WithinIds(MaxFolderIds)
    \/ SubscribeAllKids /\ WithinIds(MaxFolderIds)
    \/ Unsubscribe /\ WithinIds(MaxFolderIds)
    \/ Sync /\ WithinIds(MaxFolderIds)

SpecFolders == InitSync /\ [][NextFolders]_vars

----------------------------------------------------------------------------
(* The subscriber's kids come and go between syncs.                        *)

MaxTargetIds == 10       \* ids are handed out up to MaxTargetIds

TargetCreateKid ==
    \E body \in KidBodies :
        /\ SyncStep("createKid", PostKids(DB, "A", body))
        /\ UNCHANGED masterCleanedUp

TargetDeleteKid ==
    \E id \in SyncKids :
        /\ SyncStep("deleteKid", DeleteKidsId(DB, "A", id))
        /\ UNCHANGED masterCleanedUp

SubscribeListing == SubscribeWith({<<>>, <<3, UnknownId>>})

SyncAll ==
    /\ SyncStep("listVideos", GetVideos(DB, masterCleanedUp, "A"))
    /\ UNCHANGED masterCleanedUp

NextTargets ==
    \/ TargetCreateKid /\ WithinIds(MaxTargetIds)
    \/ TargetDeleteKid /\ WithinIds(MaxTargetIds)
    \/ MasterCreateVideo /\ WithinIds(MaxTargetIds)
    \/ SubscribeListing /\ WithinIds(MaxTargetIds)
    \/ Sync /\ WithinIds(MaxTargetIds)
    \/ SyncAll /\ WithinIds(MaxTargetIds)

SpecTargets == InitSync /\ [][NextTargets]_vars

----------------------------------------------------------------------------
(* The kid population of owner "A", who starts with five kids; "B" has a   *)
(* kid of her own.                                                         *)

MaxPopulationIds == 7    \* ids are handed out up to MaxPopulationIds

OtherKid == 0

InitPopulation ==
    /\ kidsTable = {[id |-> k, userId |-> "A", name |-> <<KidNames[k], 0>>,
                     avatar |-> "child"] : k \in 1..5}
                   \cup {[id |-> OtherKid, userId |-> "B", name |-> <<"fay", 0>>,
                          avatar |-> "girl"]}
    /\ foldersTable = <<>>
    /\ videosTable = {}
    /\ globalSubscriptionsTable = {}
    /\ masterCleanedUp = {}
    /\ nextId = 6
    /\ last = Response("none", 0, "")
    /\ completions = <<>>
    /\ inFlight = Idle

PopulationNames == {<<"fay", 0>>, <<"ann", 3>>, <<"", 2>>, EmptyName}
PopulationKids == OtherKid..MaxPopulationIds

PopulationCreateKid ==
    \E name \in PopulationNames :
        /\ SyncStep("createKid", PostKids(DB, "A", [name |-> name, avatar |-> "robot"]))
        /\ UNCHANGED masterCleanedUp

PopulationRenameKid ==
    \E id \in PopulationKids, name \in PopulationNames :
        /\ SyncStep("updateKid", PatchKidsId(DB, "A", id, [name |-> name]))
        /\ UNCHANGED masterCleanedUp

PopulationDeleteKid ==
    \E id \in PopulationKids :
        /\ SyncStep("deleteKid", DeleteKidsId(DB, "A", id))
        /\ UNCHANGED masterCleanedUp

NextPopulation ==
    \/ PopulationCreateKid /\ WithinIds(MaxPopulationIds)
    \/ PopulationRenameKid /\ WithinIds(MaxPopulationIds)
    \/ PopulationDeleteKid /\ WithinIds(MaxPopulationIds)

SpecPopulation == InitPopulation /\ [][NextPopulation]_vars

----------------------------------------------------------------------------
(* Duplicate kids.  POST /api/kids reads the kids, checks the name and only *)
(* then inserts, so that requests that passed the check together all       *)
(* insert.  The duplicate cleanup is followed write by write; it can be    *)
(* interrupted, and no other request is served between its steps.          *)

MaxMergeIds == 7         \* ids are handed out up to MaxMergeIds

MergeBodies == {[name |-> <<"cat", spelling>>, avatar |-> "robot"] : spelling \in 0..2}
MergeKids == 4..MaxMergeIds
MergeVideos == 3..MaxMergeIds

MergeFrame == UNCHANGED <<masterCleanedUp, last, completions>>
TablesFrame ==
    UNCHANGED <<kidsTable, foldersTable, videosTable, globalSubscriptionsTable, nextId>>

\* POST /api/kids up to its checks
CreateKidCheck ==
    \E body \in MergeBodies :
        /\ inFlight.cleanup = None
        /\ body \notin inFlight.creating
        /\ PostKids(DB, "A", body).status = 201
        /\ inFlight' = [inFlight EXCEPT !.creating = @ \cup {body}]
        /\ TablesFrame
        /\ MergeFrame

\* POST /api/kids from storage.createKid on
CreateKidInsert ==
    \E body \in inFlight.creating :
        /\ inFlight.cleanup = None
        /\ Store(createKid(DB, body, "A"))
        /\ inFlight' = [inFlight EXCEPT !.creating = @ \ {body}]
        /\ MergeFrame

MergeCreateVideo ==
    \E kidIds \in {None, Some(<<5>>)} :
        /\ inFlight.cleanup = None
        /\ SyncStep("createVideo",
                    PostVideos(DB, "A",
                               [url |-> Url(<<"www", "youtube", "com">>, <<"watch">>, Some("xyz")),
                                kidIds |-> kidIds, folderId |-> None, priority |-> None]))
        /\ UNCHANGED masterCleanedUp

\* a kid watches a video for the first time
MergeWatched ==
    \E kidId \in MergeKids, videoId \in MergeVideos :
        LET r == PostWatched("A", videoId, kidId, Some(OneRecording), 1) IN
        /\ inFlight.cleanup = None
        /\ \A v \in getVideo(videoId, "A") :
              kidId \in DOMAIN v.progress /\ ~v.progress[kidId].watched
        /\ r.status = 200
        /\ videosTable' = r.videos
        /\ UNCHANGED <<kidsTable, foldersTable, globalSubscriptionsTable, nextId, inFlight>>
        /\ MergeFrame

\* the cleanup down to the merge; without duplicates it responds at once
CleanupBegin ==
    \E deleteIds \in DeleteIdOrders(getKids(DB, "A")) :
        /\ inFlight.cleanup = None
        /\ inFlight' = IF deleteIds = <<>> THEN inFlight
                       ELSE [inFlight EXCEPT !.cleanup = Some(CleanupJob(DB, "A", deleteIds))]
        /\ TablesFrame
        /\ MergeFrame

CleanupWriteVideo ==
    /\ inFlight.cleanup # None
    /\ CleanupPc(inFlight.cleanup[1]) = "write"
    /\ \E video \in inFlight.cleanup[1].pending :
          /\ Store(writeMerged(DB, video))
          /\ inFlight' = [inFlight EXCEPT !.cleanup[1].pending = @ \ {video}]
    /\ MergeFrame

CleanupDeleteKid ==
    /\ inFlight.cleanup # None
    /\ CleanupPc(inFlight.cleanup[1]) = "delete"
    /\ LET job == inFlight.cleanup[1] IN
       Store(deleteKid(DB, job.deleteIds[job.deleted + 1], job.userId))
    /\ inFlight' = [inFlight EXCEPT !.cleanup[1].deleted = @ + 1]
    /\ MergeFrame

CleanupRespond ==
    /\ inFlight.cleanup # None
    /\ CleanupPc(inFlight.cleanup[1]) = "respond"
    /\ inFlight' = [inFlight EXCEPT !.cleanup = None]
    /\ TablesFrame
    /\ MergeFrame

\* the process stops while the cleanup is at an await
Interrupt ==
    /\ inFlight.cleanup # None
    /\ inFlight' = [inFlight EXCEPT !.cleanup = None]
    /\ TablesFrame
    /\ MergeFrame

NextMerge ==
    \/ CreateKidCheck /\ WithinIds(MaxMergeIds)
    \/ CreateKidInsert /\ WithinIds(MaxMergeIds)
    \/ MergeCreateVideo /\ WithinIds(MaxMergeIds)
    \/ MergeWatched /\ WithinIds(MaxMergeIds)
    \/ CleanupBegin /\ WithinIds(MaxMergeIds)
    \/ CleanupWriteVideo /\ WithinIds(MaxMergeIds)
    \/ CleanupDeleteKid /\ WithinIds(MaxMergeIds)
    \/ CleanupRespond /\ WithinIds(MaxMergeIds)
    \/ Interrupt /\ WithinIds(MaxMergeIds)

SpecMerge == InitKids /\ [][NextMerge]_vars

----------------------------------------------------------------------------
(* The history of a video of owner "A": completions, playback positions,   *)
(* the parent's review, a new kid, the duplicate cleanup, one request at a *)
(* time.  Kids 4 and 5 are duplicates, as two POST /api/kids that passed   *)
(* the name check together leave them; the entry of kid 1 may be a legacy  *)
(* one.                                                                    *)

MaxReviewRecordings == 2   \* recordings stored on the video, over all the kids
MaxWatchTime == 10         \* seconds in one bucket of dailyWatchTime
MaxReviewIds == 6          \* ids are handed out up to MaxReviewIds

ReviewVideo == 3
ReviewKids == {1, 4, 5}
PlaybackPositions == {5, 10, 40}
Days == {"mon", "tue"}
PositionDurations == {Some(0), Some(60)}
ReviewNow == 1             \* the clock of the completions; the legacy entry is of 0
ReviewRecordings == {[recordedAt |-> "t", duration |-> d] : d \in 1..2}

InitReview ==
    \E legacy \in SUBSET {1} :
      /\ kidsTable = {[id |-> 1, userId |-> "A", name |-> <<"ann", 0>>, avatar |-> "child"],
                      [id |-> 4, userId |-> "A", name |-> <<"cat", 0>>, avatar |-> "robot"],
                      [id |-> 5, userId |-> "A", name |-> <<"cat", 1>>, avatar |-> "robot"]}
      /\ foldersTable = <<>>
      /\ videosTable =
            {[id |-> ReviewVideo, userId |-> "A",
              url |-> Url(<<"youtu", "be">>, <<"abc">>, None),
              ytId |-> "abc", platform |-> "youtube", folderId |-> None,
              priority |-> VIDEO_PRIORITY_DEFAULT,
              assigned |-> [k \in ReviewKids |-> TRUE],
              progress |-> [k \in ReviewKids |->
                              IF k \in legacy THEN LegacyProgress ELSE NotWatched],
              totalViews |-> Cardinality(legacy)]}
      /\ globalSubscriptionsTable = {}
      /\ masterCleanedUp = {}
      /\ nextId = 6
      /\ last = Response("none", 0, "")
      /\ completions = <<>>
      /\ inFlight = Idle

\* the recordings the video holds after the step
RecordingsWithin(videos) ==
    LET Sum(v) == LET ks == DOMAIN v.progress IN
                  Cardinality(UNION {{<<k, i>> : i \in DOMAIN v.progress[k].voiceRecordings} :
                                        k \in ks})
    IN  \A v \in videos : Sum(v) <= MaxReviewRecordings

RecordingsNext == RecordingsWithin(videosTable')

\* no bucket of the entry is beyond MaxWatchTime
WatchTimeWithin(entry) ==
    \A day \in DOMAIN entry.dailyWatchTime : entry.dailyWatchTime[day] <= MaxWatchTime

ReviewFrame ==
    UNCHANGED <<kidsTable, foldersTable, globalSubscriptionsTable, masterCleanedUp,
                nextId, last, completions, inFlight>>

ReviewWatched ==
    \E kidId \in ReviewKids, voiceRecording \in ReviewRecordings :
        LET r == PostWatched("A", ReviewVideo, kidId, Some(voiceRecording), ReviewNow) IN
        /\ r.status = 200
        /\ videosTable' = r.videos
        /\ RecordingsNext
        /\ ReviewFrame

ReviewSavePosition ==
    \E position \in PlaybackPositions, duration \in PositionDurations, today \in Days :
        LET r == saveVideoPosition(DB, ReviewVideo, 4, position, "A", duration, today) IN
        /\ r.ok
        /\ videosTable' = r.db.videos
        /\ \A v \in videosTable' : \A k \in DOMAIN v.progress :
              WatchTimeWithin(v.progress[k])
        /\ ReviewFrame

ReviewClearBadge ==
    /\ videosTable' = clearParentBadge(DB, "A").videos
    /\ ReviewFrame

ReviewCreateKid ==
    /\ SyncStep("createKid", PostKids(DB, "A", [name |-> <<"dan", 0>>, avatar |-> "robot"]))
    /\ UNCHANGED masterCleanedUp

ReviewCleanup ==
    \E deleteIds \in DeleteIdOrders(getKids(DB, "A")) :
        /\ SyncStep("cleanupDuplicates", PostKidsCleanupDuplicates(DB, "A", deleteIds))
        /\ UNCHANGED masterCleanedUp

NextReview ==
    \/ ReviewWatched /\ WithinIds(MaxReviewIds)
    \/ ReviewSavePosition /\ WithinIds(MaxReviewIds)
    \/ ReviewClearBadge /\ WithinIds(MaxReviewIds)
    \/ ReviewCreateKid /\ WithinIds(MaxReviewIds)
    \/ ReviewCleanup /\ WithinIds(MaxReviewIds)

SpecReview == InitReview /\ [][NextReview]_vars

\* Playback of the video by kid 4: positions saved while it plays, on either
\* day, with and without a duration, and its completions.
PositionSave ==
    \E kidId \in {4}, position \in PlaybackPositions \cup {15},
       duration \in PositionDurations \cup {None}, today \in Days :
        LET r == saveVideoPosition(DB, ReviewVideo, kidId, position, "A", duration, today) IN
        /\ r.ok
        /\ videosTable' = r.db.videos
        /\ \A v \in videosTable' : \A k \in DOMAIN v.progress :
              WatchTimeWithin(v.progress[k])
        /\ ReviewFrame

PositionWatched ==
    LET r == PostWatched("A", ReviewVideo, 4, Some(OneRecording), ReviewNow) IN
    /\ r.status = 200
    /\ videosTable' = r.videos
    /\ RecordingsNext
    /\ ReviewFrame

NextPosition ==
    \/ PositionSave
    \/ PositionWatched

SpecPosition == InitReview /\ [][NextPosition]_vars

----------------------------------------------------------------------------
(* The same requests with every await between a select and an update made  *)
(* visible: a handler reads the rows, is suspended with the updates it     *)
(* computed from them, and issues them one at a time.  Node runs other     *)
(* handlers at every await, and the process may stop at any of them.       *)

MaxInFlight == 2           \* handlers suspended between their read and their writes

RaceFrame ==
    UNCHANGED <<foldersTable, globalSubscriptionsTable, masterCleanedUp, last, completions>>

\* a handler is suspended with the writes it has yet to issue
Suspend(limit, op, writes) ==
    /\ Cardinality(inFlight.handlers) < limit
    /\ inFlight' = [inFlight EXCEPT !.handlers = @ \cup {[op |-> op, writes |-> writes]}]

\* POST .../watched through markVideoWatched's select and its checks
WatchedRead(limit, kidIds, voiceRecordings) ==
    \E kidId \in kidIds, voiceRecording \in voiceRecordings :
        LET r == PostWatched("A", ReviewVideo, kidId, Some(voiceRecording), ReviewNow) IN
        /\ r.status = 200
        /\ RecordingsWithin(r.videos)
        /\ Suspend(limit, "markWatched",
                   WatchedWrites(CHOOSE v \in getVideo(ReviewVideo, "A") : TRUE,
                                 kidId, voiceRecording, ReviewNow))
        /\ UNCHANGED <<kidsTable, videosTable, nextId>>
        /\ RaceFrame

\* saveVideoPosition through its select
PositionRead(limit, positions) ==
    \E position \in positions :
        LET rows == getVideo(ReviewVideo, "A")
            writes == PositionWrites(CHOOSE v \in rows : TRUE, 4, position, None, "mon")
        IN  /\ rows # {}
            /\ \A k \in DOMAIN writes[1].set.progress :
                  WatchTimeWithin(writes[1].set.progress[k])
            /\ Suspend(limit, "savePosition", writes)
            /\ UNCHANGED <<kidsTable, videosTable, nextId>>
            /\ RaceFrame

\* clearParentBadge through getVideos; with nothing to review it writes nothing
ClearBadgeRead(limit) ==
    LET writes == ClearBadgeWrites(getVideos(DB, "A")) IN
    /\ writes # <<>>
    /\ Suspend(limit, "clearParentBadge", writes)
    /\ UNCHANGED <<kidsTable, videosTable, nextId>>
    /\ RaceFrame

\* POST /api/kids through createKid's insert and its getVideos
KidInsert(limit) ==
    LET body == [name |-> <<"dan", 0>>, avatar |-> "robot"]
        inserted == createKid(DB, body, "A")
    IN  /\ PostKids(DB, "A", body).status = 201
        /\ kidsTable' = inserted.kids
        /\ nextId' = inserted.nextId
        /\ Suspend(limit, "createKid", CreateKidWrites(getVideos(DB, "A"), FreshId(DB)))
        /\ UNCHANGED videosTable
        /\ RaceFrame

\* a suspended handler issues its next update
HandlerWrite ==
    \E h \in inFlight.handlers :
        /\ videosTable' = ApplyWrite(DB, Head(h.writes)).videos
        /\ inFlight' = [inFlight EXCEPT !.handlers =
                          (@ \ {h}) \cup (IF Tail(h.writes) = <<>> THEN {}
                                          ELSE {[h EXCEPT !.writes = Tail(@)]})]
        /\ UNCHANGED <<kidsTable, nextId>>
        /\ RaceFrame

\* the process stops; the suspended handlers are gone, the store is as it is
Crash ==
    /\ inFlight.handlers # {}
    /\ inFlight' = [inFlight EXCEPT !.handlers = {}]
    /\ UNCHANGED <<kidsTable, videosTable, nextId>>
    /\ RaceFrame

NextRace ==
    \/ WatchedRead(MaxInFlight, {4}, {OneRecording}) /\ WithinIds(MaxReviewIds)
    \/ PositionRead(MaxInFlight, {10}) /\ WithinIds(MaxReviewIds)
    \/ ClearBadgeRead(MaxInFlight) /\ WithinIds(MaxReviewIds)
    \/ KidInsert(MaxInFlight) /\ WithinIds(MaxReviewIds)
    \/ HandlerWrite /\ WithinIds(MaxReviewIds)

SpecRace == InitReview /\ [][NextRace]_vars

\* one request at a time, and the process may stop at any await
NextCrash ==
    \/ WatchedRead(1, {4, 5}, ReviewRecordings) /\ WithinIds(MaxReviewIds)
    \/ PositionRead(1, PlaybackPositions) /\ WithinIds(MaxReviewIds)
    \/ ClearBadgeRead(1) /\ WithinIds(MaxReviewIds)
    \/ KidInsert(1) /\ WithinIds(MaxReviewIds)
    \/ HandlerWrite /\ WithinIds(MaxReviewIds)
    \/ Crash /\ WithinIds(MaxReviewIds)

SpecCrash == InitReview /\ [][NextCrash]_vars

----------------------------------------------------------------------------
(* Completions of one video by two kids at the same time: each request     *)
(* selects the video, passes the checks, and is suspended at the await of  *)
(* its update; when the update has returned the route answers 200.  Kids 1 *)
(* to 3 may have completed the video before.                               *)

MaxCompletions == 3      \* completions answered with 200

CompletionKids == {4, 5}

InitCompletions ==
    \E done \in {{}, {1, 2, 3}} :
      /\ kidsTable = {[id |-> k, userId |-> "A", name |-> <<KidNames[k], 0>>,
                       avatar |-> "child"] : k \in CapKids}
      /\ foldersTable = <<>>
      /\ videosTable =
            {[id |-> WatchVideo, userId |-> "A",
              url |-> Url(<<"youtu", "be">>, <<"abc">>, None),
              ytId |-> "abc", platform |-> "youtube", folderId |-> None,
              priority |-> VIDEO_PRIORITY_DEFAULT,
              assigned |-> [k \in CapKids |-> TRUE],
              progress |-> [k \in CapKids |->
                              IF k \in done
                              THEN WatchedProgress(None, LegacyRecording, 0)
                              ELSE NotWatched],
              totalViews |-> Cardinality(done)]}
      /\ globalSubscriptionsTable = {}
      /\ masterCleanedUp = {}
      /\ nextId = UnknownId + 1
      /\ last = Response("none", 0, "")
      /\ completions = <<>>
      /\ inFlight = Idle

CompletionFrame ==
    UNCHANGED <<kidsTable, foldersTable, globalSubscriptionsTable, masterCleanedUp,
                nextId, last>>

\* POST .../watched through markVideoWatched's select and its checks
CompletionRead ==
    \E kidId \in CompletionKids, voiceRecording \in ReviewRecordings :
        LET r == PostWatched("A", WatchVideo, kidId, Some(voiceRecording), 1) IN
        /\ r.status = 200
        /\ Cardinality(inFlight.handlers) < MaxInFlight
        /\ Len(completions) + Cardinality(inFlight.handlers) < MaxCompletions
        /\ inFlight' = [inFlight EXCEPT !.handlers = @ \cup
                          {[op |-> "markWatched", kidId |-> kidId,
                            writes |-> WatchedWrites(
                                           CHOOSE v \in getVideo(WatchVideo, "A") : TRUE,
                                           kidId, voiceRecording, 1)]}]
        /\ UNCHANGED <<videosTable, completions>>
        /\ CompletionFrame

\* the update returns, markVideoWatched returns true and the route answers
CompletionWrite ==
    \E h \in inFlight.handlers :
        /\ videosTable' = ApplyWrites(DB, h.writes).videos
        /\ completions' = Append(completions, <<WatchVideo, h.kidId>>)
        /\ inFlight' = [inFlight EXCEPT !.handlers = @ \ {h}]
        /\ CompletionFrame

NextCompletions ==
    \/ CompletionRead
    \/ CompletionWrite

SpecCompletions == InitCompletions /\ [][NextCompletions]_vars

----------------------------------------------------------------------------
(* GET /api/videos with its awaits: the master's request tests the Set,    *)
(* awaits cleanupGlobalData and adds the account to the Set only when the  *)
(* cleanup has returned; other requests run at that await.                 *)

\* GET /api/videos up to its first await; a request that does not take the
\* cleanup branch has no step that other requests can tell apart
ListBegin ==
    \E userId \in SyncUsers :
        LET busy == {h.request : h \in inFlight.handlers}
            request == CHOOSE n \in 1..(MaxInFlight + 1) :
                          n \notin busy /\ \A m \in 1..(n - 1) : m \in busy
        IN  /\ Cardinality(inFlight.handlers) < MaxInFlight
            /\ IF userId = MASTER_USER_ID /\ userId \notin masterCleanedUp
               THEN /\ inFlight' = [inFlight EXCEPT !.handlers =
                                      @ \cup {[op |-> "cleanupGlobalData",
                                               userId |-> userId, request |-> request]}]
                    /\ UNCHANGED <<kidsTable, foldersTable, videosTable,
                                   globalSubscriptionsTable, nextId, masterCleanedUp,
                                   last, completions>>
               ELSE /\ SyncStep("listVideos", GetVideos(DB, masterCleanedUp, userId))
                    /\ UNCHANGED masterCleanedUp

\* cleanupGlobalData returns: its deletes are in the store, and the handler
\* adds the account to the Set
ListResume ==
    \E h \in inFlight.handlers :
        /\ Store(cleanupGlobalData(DB, h.userId))
        /\ masterCleanedUp' = masterCleanedUp \cup {h.userId}
        /\ inFlight' = [inFlight EXCEPT !.handlers = @ \ {h}]
        /\ UNCHANGED <<last, completions>>

NextListing ==
    \/ CreateVideo /\ WithinIds(MaxSyncIds)
    \/ Subscribe /\ WithinIds(MaxSyncIds)
    \/ Sync /\ WithinIds(MaxSyncIds)
    \/ ListBegin /\ WithinIds(MaxSyncIds)
    \/ ListResume /\ WithinIds(MaxSyncIds)

SpecListing == InitSync /\ [][NextListing]_vars

----------------------------------------------------------------------------
(* syncSubscription with its awaits: a run selects the subscription, the   *)
(* kids, the master folder and the rows of the shadow folder's name,       *)
(* inserts the folder when it found none, selects the master's videos and  *)
(* the videos of the shadow folder, and inserts the missing copies one at  *)
(* a time.  Two requests of "A" (GET /api/videos, POST /api/global/sync)   *)
(* run it at once; the master adds videos and "A" deletes folders in       *)
(* between.                                                                *)

MaxSyncRaceIds == 10     \* ids are handed out up to MaxSyncRaceIds

\* the number of a new request among those in flight
NewRequest ==
    LET busy == {h.request : h \in inFlight.handlers} IN
    CHOOSE n \in 1..(MaxInFlight + 1) : n \notin busy /\ \A m \in 1..(n - 1) : m \in busy

\* the master videos a run has yet to copy, in the order of the master's rows
RECURSIVE ById(_)
ById(rows) ==
    IF rows = {} THEN <<>>
    ELSE LET first == CHOOSE r \in rows : \A q \in rows : r.id <= q.id
         IN  <<first>> \o ById(rows \ {first})

\* the run with its handler h replaced by the handlers of the set next
Resume(h, next) ==
    inFlight' = [inFlight EXCEPT !.handlers = (@ \ {h}) \cup next]

\* through the select of localFolderRows
SyncSelectFolder ==
    LET sub == SubscriptionRows(DB, "A", MasterFolder)
        localFolderRows == LocalFolderRows(DB, "A", MasterFolder)
    IN  /\ Cardinality(inFlight.handlers) < MaxInFlight
        /\ sub # {}
        /\ getFolder(DB, MasterFolder, MASTER_USER_ID) # <<>>
        /\ inFlight' = [inFlight EXCEPT !.handlers = @ \cup
              {[op |-> "syncSubscription", request |-> NewRequest,
                targetKids |-> TargetKids(FirstRow(sub).kidIds, getKids(DB, "A")),
                stage |-> IF localFolderRows = <<>> THEN "insertFolder"
                          ELSE "selectVideos",
                localFolderId |-> IF localFolderRows = <<>> THEN None
                                  ELSE Some(localFolderRows[1].id),
                copies |-> <<>>]}]
        /\ UNCHANGED <<kidsTable, foldersTable, videosTable, globalSubscriptionsTable,
                       nextId, masterCleanedUp, last, completions>>

\* db.insert(foldersTable) of the shadow folder
SyncInsertFolder ==
    \E h \in inFlight.handlers :
        /\ h.stage = "insertFolder"
        /\ foldersTable' = Append(foldersTable,
                                  [id |-> FreshId(DB), userId |-> "A",
                                   name |-> localFolderName(MasterFolder)])
        /\ nextId' = nextId + 1
        /\ Resume(h, {[h EXCEPT !.stage = "selectVideos",
                                !.localFolderId = Some(FreshId(DB))]})
        /\ UNCHANGED <<kidsTable, videosTable, globalSubscriptionsTable,
                       masterCleanedUp, last, completions>>

\* getGlobalVideos and the select of existingLocal
SyncSelectVideos ==
    \E h \in inFlight.handlers :
        LET masterVideos == getGlobalVideos(DB, MASTER_USER_ID, MasterFolder)
            existingYtIds == ExistingYtIds(DB, "A", h.localFolderId[1])
            missing == {mv \in masterVideos : mv.ytId \notin existingYtIds}
        IN  /\ h.stage = "selectVideos"
            /\ Resume(h, IF missing = {} THEN {}
                         ELSE {[h EXCEPT !.stage = "insertVideos",
                                         !.copies = ById(missing)]})
            /\ UNCHANGED <<kidsTable, foldersTable, videosTable,
                           globalSubscriptionsTable, nextId, masterCleanedUp, last,
                           completions>>

\* db.insert(videosTable) of the next copy
SyncInsertVideo ==
    \E h \in inFlight.handlers :
        /\ h.stage = "insertVideos"
        /\ videosTable' = insertVideos(videosTable,
                              {ReplicatedVideo(Head(h.copies), FreshId(DB), "A",
                                               h.localFolderId[1], h.targetKids)})
        /\ nextId' = nextId + 1
        /\ Resume(h, IF Tail(h.copies) = <<>> THEN {}
                     ELSE {[h EXCEPT !.copies = Tail(@)]})
        /\ UNCHANGED <<kidsTable, foldersTable, globalSubscriptionsTable,
                       masterCleanedUp, last, completions>>

SyncRaceSubscribe ==
    /\ Serve("subscribe",
             PostGlobalSubscribe(DB, "A", [masterFolderId |-> MasterFolder,
                                           kidIds |-> <<>>]))
    /\ UNCHANGED masterCleanedUp

NextSyncRace ==
    \/ SyncRaceSubscribe /\ WithinIds(MaxSyncRaceIds)
    \/ MasterCreateVideo /\ WithinIds(MaxSyncRaceIds)
    \/ DeleteFolder /\ WithinIds(MaxSyncRaceIds)
    \/ SyncSelectFolder /\ WithinIds(MaxSyncRaceIds)
    \/ SyncInsertFolder /\ WithinIds(MaxSyncRaceIds)
    \/ SyncSelectVideos /\ WithinIds(MaxSyncRaceIds)
    \/ SyncInsertVideo /\ WithinIds(MaxSyncRaceIds)

SpecSyncRace == InitSync /\ [][NextSyncRace]_vars

----------------------------------------------------------------------------
(* The view count of the videos of "A" under every operation that writes a *)
(* video, one request at a time: "A" has the kids 1 to 5 and a video that  *)
(* three of them may have completed, and a subscription to the master's    *)
(* playlist.                                                               *)

MaxViewIds == 11         \* ids are handed out up to MaxViewIds
MaxViewRecordings == 2   \* recordings made since the start, over all the videos

ViewKids == {4, 5}

\* the accounts before "A" subscribes
ViewsSeed(done) ==
    [kids |-> {[id |-> k, userId |-> "A", name |-> <<KidNames[k], 0>>,
                avatar |-> "child"] : k \in CapKids},
     folders |-> <<[id |-> MasterFolder, userId |-> MASTER_USER_ID,
                    name |-> <<"Curated">>]>>,
     videos |-> {[id |-> WatchVideo, userId |-> "A",
                  url |-> Url(<<"youtu", "be">>, <<"abc">>, None),
                  ytId |-> "abc", platform |-> "youtube", folderId |-> None,
                  priority |-> VIDEO_PRIORITY_DEFAULT,
                  assigned |-> [k \in CapKids |-> TRUE],
                  progress |-> [k \in CapKids |->
                                  IF k \in done
                                  THEN WatchedProgress(None, LegacyRecording, 0)
                                  ELSE NotWatched],
                  totalViews |-> Cardinality(done)]},
     subs |-> {},
     nextId |-> UnknownId + 1]

\* "A" has taken the playlist for kids 4 and 5 while it was empty, and the
\* master has added a video since
ViewsStart(done) ==
    LET subscribed == PostGlobalSubscribe(ViewsSeed(done), "A",
                                          [masterFolderId |-> MasterFolder,
                                           kidIds |-> <<4, 5>>]).db
    IN  PostVideos(subscribed, MASTER_USER_ID,
                   [url |-> Url(<<"www", "youtube", "com">>, <<"watch">>, Some("abc")),
                    kidIds |-> None, folderId |-> Some(MasterFolder),
                    priority |-> None]).db

InitViews ==
    \E done \in {{}, {1, 2, 3}} :
      /\ kidsTable = ViewsStart(done).kids
      /\ foldersTable = ViewsStart(done).folders
      /\ videosTable = ViewsStart(done).videos
      /\ globalSubscriptionsTable = ViewsStart(done).subs
      /\ masterCleanedUp = {}
      /\ nextId = ViewsStart(done).nextId
      /\ last = Response("none", 0, "")
      /\ completions = <<>>
      /\ inFlight = Idle

ViewsCreateVideo ==
    /\ SyncStep("createVideo",
                PostVideos(DB, "A",
                           [url |-> Url(<<"www", "youtube", "com">>,
                                        <<"shorts", "xyz">>, None),
                            kidIds |-> Some(<<4, 5>>), folderId |-> None,
                            priority |-> None]))
    /\ UNCHANGED masterCleanedUp

ViewsCreateKid ==
    /\ SyncStep("createKid", PostKids(DB, "A", [name |-> <<"gus", 0>>, avatar |-> "robot"]))
    /\ UNCHANGED masterCleanedUp

ViewsDeleteKid ==
    /\ SyncStep("deleteKid", DeleteKidsId(DB, "A", 5))
    /\ UNCHANGED masterCleanedUp

ViewsWatched ==
    \E videoId \in VideoIds, kidId \in ViewKids :
        LET r == PostWatched("A", videoId, kidId, Some(OneRecording), ReviewNow) IN
        /\ videosTable' = r.videos
        /\ Cardinality(UNION {UNION {{<<v.id, k, i>> :
                                  i \in {j \in DOMAIN v.progress[k].voiceRecordings :
                                            v.progress[k].voiceRecordings[j] = OneRecording}} :
                                     k \in DOMAIN v.progress} :
                              v \in r.videos}) <= MaxViewRecordings
        /\ ReviewFrame

ViewsSavePosition ==
    \E videoId \in VideoIds :
        LET r == saveVideoPosition(DB, videoId, 4, 10, "A", None, "mon") IN
        /\ videosTable' = r.db.videos
        /\ ReviewFrame

ViewsSync ==
    /\ SyncStep("sync", PostGlobalSync(DB, "A", [masterFolderId |-> MasterFolder]))
    /\ UNCHANGED masterCleanedUp

NextViews ==
    \/ ViewsCreateVideo /\ WithinIds(MaxViewIds)
    \/ ViewsCreateKid /\ WithinIds(MaxViewIds)
    \/ ViewsDeleteKid /\ WithinIds(MaxViewIds)
    \/ ViewsWatched /\ WithinIds(MaxViewIds)
    \/ ViewsSavePosition /\ WithinIds(MaxViewIds)
    \/ ReviewClearBadge /\ WithinIds(MaxViewIds)
    \/ ViewsSync /\ WithinIds(MaxViewIds)

SpecViews == InitViews /\ [][NextViews]_vars

----------------------------------------------------------------------------
(* Two accounts beside the master: "B" has a kid, a folder, a video in it  *)
(* and a subscription with its shadow folder and copy; "A" has a kid and   *)
(* makes requests of every kind.                                           *)

MaxIsolationIds == 13    \* ids are handed out up to MaxIsolationIds

\* the accounts as they sign up, before any request of "B"
IsolationSeed ==
    [kids |-> {[id |-> 3, userId |-> "A", name |-> <<"cat", 0>>, avatar |-> "child"],
               [id |-> 4, userId |-> "B", name |-> <<"dan", 0>>, avatar |-> "child"],
               [id |-> MasterKid, userId |-> MASTER_USER_ID, name |-> <<"max", 0>>,
                avatar |-> "robot"]},
     folders |-> <<[id |-> MasterFolder, userId |-> MASTER_USER_ID,
                    name |-> <<"Curated">>]>>,
     videos |-> {[id |-> 2, userId |-> MASTER_USER_ID,
                  url |-> Url(<<"www", "youtube", "com">>, <<"watch">>, Some("abc")),
                  ytId |-> "abc", platform |-> "youtube",
                  folderId |-> Some(MasterFolder),
                  priority |-> VIDEO_PRIORITY_MAX,
                  assigned |-> [k \in {MasterKid} |-> TRUE],
                  progress |-> [k \in {MasterKid} |-> NotWatched],
                  totalViews |-> 0]},
     subs |-> {},
     nextId |-> 5]

\* "B" makes a folder, uploads a video into it and subscribes to the playlist
IsolationStart ==
    LET folder == PostFolders(IsolationSeed, "B", [name |-> <<"Mine">>], 2).db
        upload == PostVideos(folder, "B",
                             [url |-> Url(<<"youtu", "be">>, <<"xyz">>, None),
                              kidIds |-> None, folderId |-> Some(5),
                              priority |-> None]).db
    IN  PostGlobalSubscribe(upload, "B",
                            [masterFolderId |-> MasterFolder, kidIds |-> <<>>]).db

InitIsolation ==
    /\ kidsTable = IsolationStart.kids
    /\ foldersTable = IsolationStart.folders
    /\ videosTable = IsolationStart.videos
    /\ globalSubscriptionsTable = IsolationStart.subs
    /\ nextId = IsolationStart.nextId
    /\ masterCleanedUp = {}
    /\ last = Response("none", 0, "")
    /\ completions = <<>>
    /\ inFlight = Idle

IsolationCreateKid ==
    /\ SyncStep("createKid", PostKids(DB, "A", [name |-> <<"gus", 0>>, avatar |-> "robot"]))
    /\ UNCHANGED masterCleanedUp

IsolationCreateVideo == CreateVideoBy({"A"})

IsolationCreateFolder ==
    /\ SyncStep("createFolder",
                PostFolders(DB, "A", [name |-> <<"Mine">>], Len(foldersTable) + 1))
    /\ UNCHANGED masterCleanedUp

IsolationUnsubscribe ==
    \E userId \in {"A", "B"} : UnsubscribeOf(userId, MasterFolder)

NextIsolation ==
    \/ IsolationCreateKid /\ WithinIds(MaxIsolationIds)
    \/ IsolationCreateVideo /\ WithinIds(MaxIsolationIds)
    \/ IsolationCreateFolder /\ WithinIds(MaxIsolationIds)
    \/ SubscribeAllKids /\ WithinIds(MaxIsolationIds)
    \/ IsolationUnsubscribe /\ WithinIds(MaxIsolationIds)

SpecIsolation == InitIsolation /\ [][NextIsolation]_vars

----------------------------------------------------------------------------
(* Priorities: "A" uploads videos with and without a priority, "A" and the *)
(* master change the priority of their videos, and "A" takes the playlist. *)

MaxPriorityIds == 8      \* ids are handed out up to MaxPriorityIds

\* the JSON values a client sends as priority
PriorityValues == {Num(0), Half(2), NotNumeric}

PriorityCreateVideo ==
    \E url \in SyncUrls,
       priority \in {None, Some(Num(3)), Some(Num(10)), Some(Half(4))} :
        /\ SyncStep("createVideo",
                    PostVideos(DB, "A", [url |-> url, kidIds |-> None,
                                         folderId |-> None, priority |-> priority]))
        /\ UNCHANGED masterCleanedUp

PriorityUpdateVideo ==
    \E userId \in SyncUsers, id \in VideoIds,
       priority \in {None} \cup {Some(j) : j \in PriorityValues} :
        /\ SyncStep("updateVideo",
                    PatchVideosId(DB, userId, id,
                                  [priority |-> priority, folderId |-> <<>>]))
        /\ UNCHANGED masterCleanedUp

NextPriority ==
    \/ PriorityCreateVideo /\ WithinIds(MaxPriorityIds)
    \/ PriorityUpdateVideo /\ WithinIds(MaxPriorityIds)
    \/ SubscribeAllKids /\ WithinIds(MaxPriorityIds)
    \/ Sync /\ WithinIds(MaxPriorityIds)

SpecPriority == InitSync /\ [][NextPriority]_vars

----------------------------------------------------------------------------
(* The classifier at work: an account without kids pastes URLs of every    *)
(* shape into POST /api/videos and deletes videos again.                   *)

MaxClassifierIds == 2    \* ids are handed out up to MaxClassifierIds

InitClassifier ==
    /\ kidsTable = {}
    /\ foldersTable = <<>>
    /\ videosTable = {}
    /\ globalSubscriptionsTable = {}
    /\ masterCleanedUp = {}
    /\ nextId = 1
    /\ last = Response("none", 0, "")
    /\ completions = <<>>
    /\ inFlight = Idle

\* the URLs pasted
PastedUrls ==
    {Url(<<"youtu", "be">>, <<"abc">>, None),
     Url(<<"www", "youtu", "be">>, <<"xyz", "video", "123">>, Some("def")),
     Url(<<"www", "youtube", "com">>, <<"watch">>, Some("def")),
     Url(<<"m", "youtube", "com">>, <<"shorts", "ghi">>, None),
     Url(<<"youtube", "com">>, <<"embed", "jkl">>, Some("")),
     Url(<<"notyoutube", "com">>, <<"video", "456">>, Some("mno")),
     Url(<<"www", "tiktok", "com">>, <<"@u", "video", "123">>, None),
     Url(<<"m", "tiktok", "com">>, <<"video", "456">>, Some("pqr")),
     Url(<<"tiktok", "com">>, <<"video", "video", "123">>, None),
     Url(<<"tiktok", "com">>, <<"@u", "video", "12a">>, None),
     Url(<<"tiktok", "com">>, <<"t", "ZTabc">>, None),
     Url(<<"vm", "tiktok", "com">>, <<"ZTabc">>, None),
     Url(<<"www", "youtube", "com">>, <<"watch">>, None),
     Url(<<"example", "com">>, <<"video", "123">>, Some("abc")),
     Unparseable}

ClassifierCreateVideo ==
    \E url \in PastedUrls :
        /\ Serve("createVideo",
                 PostVideos(DB, "A", [url |-> url, kidIds |-> None,
                                      folderId |-> None, priority |-> None]))
        /\ UNCHANGED masterCleanedUp

ClassifierDeleteVideo ==
    \E id \in VideoIds :
        /\ Serve("deleteVideo", DeleteVideosId(DB, "A", id))
        /\ UNCHANGED masterCleanedUp

NextClassifier ==
    \/ ClassifierCreateVideo /\ WithinIds(MaxClassifierIds)
    \/ ClassifierDeleteVideo /\ WithinIds(MaxClassifierIds)

SpecClassifier == InitClassifier /\ [][NextClassifier]_vars

----------------------------------------------------------------------------
(* Properties of the identity store *)

\* C6: after deleteKid(K) no video of the owner keeps K in assigned or in
\* progress, and no video is deleted.
C6_DeleteKidReconciles ==
    [][\A id \in 1..MaxKidIds :
          ( /\ getKidById(id) # {}
            /\ \A k \in getKidById(id) : k.userId = "A"
            /\ DeleteKidOf("A", id) )
          => /\ last'.status = 204
             /\ {v.id : v \in videosTable'} = {v.id : v \in videosTable}
             /\ \A v \in videosTable' :
                   v.userId = "A" => /\ id \notin DOMAIN v.assigned
                                     /\ id \notin DOMAIN v.progress]_vars

----------------------------------------------------------------------------
(* Properties of the catalog and of the subscription sync *)

\* C7: no owner holds two videos with the same (platform, platformVideoId),
\* a video added directly and a copy in a shadow folder included.
C7_VideoUniqueness ==
    \A v \in videosTable, w \in videosTable :
        (v.userId = w.userId /\ v.platform = w.platform /\ v.ytId = w.ytId)
            => v.id = w.id

\* syncSubscription once, and once more on what it left
SyncOnce(masterFolderId) ==
    syncSubscription(DB, "A", masterFolderId, MASTER_USER_ID)
SyncTwice(masterFolderId) ==
    syncSubscription(SyncOnce(masterFolderId), "A", masterFolderId, MASTER_USER_ID)

\* C8: syncSubscription called twice in a row creates no video, folder or
\* subscription row on the second call.
C8_SyncIdempotent ==
    \A masterFolderId \in {MasterFolder, UnknownId} :
        SyncTwice(masterFolderId) = SyncOnce(masterFolderId)

\* the first call has a copy to make, into a folder whose name another folder
\* of the subscriber carries too
C8_Witness ==
    /\ SubscriptionRows(DB, "A", MasterFolder) # {}
    /\ Len(LocalFolderRows(DB, "A", MasterFolder)) = 2
    /\ SyncOnce(MasterFolder).videos # videosTable

\* C9: after unsubscribe on an existing subscription the subscriber has no
\* folder named __global_<masterFolderId>, no video that was in that shadow
\* folder and no subscription entry for it; the other videos are unchanged.
C9_UnsubscribeCleans ==
    [][( /\ SubscriptionRows(DB, "A", MasterFolder) # {}
         /\ UnsubscribeOf("A", MasterFolder) )
       => LET shadow == {f.id : f \in Range(LocalFolderRows(DB, "A", MasterFolder))}
              Outside(v) == v.userId # "A" \/ v.folderId = None
                               \/ v.folderId[1] \notin shadow
          IN  /\ \A i \in DOMAIN foldersTable' :
                    ~ ( /\ foldersTable'[i].userId = "A"
                        /\ foldersTable'[i].name = localFolderName(MasterFolder) )
              /\ \A v \in videosTable' : Outside(v)
              /\ \A s \in globalSubscriptionsTable' :
                    ~(s.userId = "A" /\ s.masterFolderId = MasterFolder)
              /\ {v \in videosTable : Outside(v)} = videosTable']_vars

\* C10: at most one subscription row per (userId, masterFolderId), and a
\* repeat subscribe keeps the row's id and createdAt and replaces its kidIds.
C10_SubscriptionUpsert ==
    /\ \A s \in globalSubscriptionsTable, t \in globalSubscriptionsTable :
          (s.userId = t.userId /\ s.masterFolderId = t.masterFolderId) => s = t
    /\ \A kidIds \in {<<>>, <<3>>, <<4, 3>>} :
          \A s \in SubscriptionRows(DB, "A", MasterFolder) :
              SubscriptionRows(subscribe(DB, "A", MasterFolder, kidIds, MASTER_USER_ID),
                               "A", MasterFolder)
                 = {[s EXCEPT !.kidIds = kidIds]}

\* a row made for all the kids, which copied a video for all of them, now
\* lists kid 3 alone
C10_Witness ==
    \E s \in SubscriptionRows(DB, "A", MasterFolder) :
        /\ s.kidIds = <<3>>
        /\ \E v \in videosTable :
              /\ v.userId = "A" /\ v.folderId # None
              /\ v.id > s.createdAt
              /\ DOMAIN v.assigned = SyncKids

\* the lists of kid ids a subscribe request is tried with
KidIdLists == {<<>>, <<3>>, <<4, 3>>, <<3, UnknownId>>}

\* the ids of the folders of "A" that carry the shadow name, in a database
ShadowIds(db, masterFolderId) ==
    {f.id : f \in Range(LocalFolderRows(db, "A", masterFolderId))}

\* C11: when subscribe returns successfully, every video the master has in
\* the folder has a video of the subscriber with the same platformVideoId in
\* the shadow folder __global_<masterFolderId>.
C11_SubscribeSyncs ==
    \A kidIds \in KidIdLists :
        LET r == PostGlobalSubscribe(DB, "A", [masterFolderId |-> MasterFolder,
                                               kidIds |-> kidIds])
        IN  r.status = 201 =>
              \A mv \in getGlobalVideos(r.db, MASTER_USER_ID, MasterFolder) :
                  \E v \in r.db.videos :
                      /\ v.userId = "A"
                      /\ v.ytId = mv.ytId
                      /\ v.folderId # None
                      /\ v.folderId[1] \in ShadowIds(r.db, MasterFolder)

\* a subscribe made the row, the shadow folder and a copy, one after the
\* other, while the master had two videos in the folder
C11_Witness ==
    /\ Cardinality(getGlobalVideos(DB, MASTER_USER_ID, MasterFolder)) = 2
    /\ \E s \in SubscriptionRows(DB, "A", MasterFolder) :
          /\ s.id + 1 \in ShadowIds(DB, MasterFolder)
          /\ \E v \in videosTable :
                v.userId = "A" /\ v.folderId = Some(s.id + 1) /\ v.id = s.id + 2

\* the playlists: the folders of the master account without the shadow prefix
Playlists ==
    {foldersTable[i].id : i \in {j \in DOMAIN foldersTable :
        /\ foldersTable[j].userId = MASTER_USER_ID
        /\ foldersTable[j].name[1] # "__global_"}}

\* C12: subscribe with a masterFolderId that is not a non-shadow folder of
\* the master account, or issued by the master account itself, returns an
\* error and creates no subscription row, no shadow folder and no video.
C12_SubscribeMissingFails ==
    \A userId \in SyncUsers, masterFolderId \in FolderIds \cup {UnknownId},
       kidIds \in KidIdLists :
        (userId = MASTER_USER_ID \/ masterFolderId \notin Playlists)
            => LET r == PostGlobalSubscribe(DB, userId,
                                            [masterFolderId |-> masterFolderId,
                                             kidIds |-> kidIds])
               IN  /\ r.status >= 400
                   /\ r.error # ""
                   /\ r.db = DB

\* a subscribe was answered "Playlist not found" while the subscriber owned a
\* folder and a subscription, and the master its shadow-named folder
C12_Witness ==
    /\ last = Response("subscribe", 404, "Playlist not found")
    /\ SubscriptionRows(DB, "A", MasterFolder) # {}
    /\ getFolder(DB, LegacyFolder, MASTER_USER_ID) # <<>>
    /\ \E i \in DOMAIN foldersTable : foldersTable[i].userId = "A"

\* the videos one syncSubscription of "A" would insert now
Replicated(masterFolderId) == SyncOnce(masterFolderId).videos \ videosTable

\* the kids a copy made now is for: the listed ids that are kids of "A", or
\* every kid of "A" when the list is empty
Targets(masterFolderId) ==
    LET listed == UNION {{s.kidIds[i] : i \in DOMAIN s.kidIds} :
                            s \in SubscriptionRows(DB, "A", masterFolderId)}
        mine == {k.id : k \in {j \in kidsTable : j.userId = "A"}}
    IN  IF listed = {} THEN mine ELSE listed \cap mine

\* C13: every video created by syncSubscription has totalViews = 0, the
\* shadow folder as folderId, progress {watched: false} without recordings
\* and assigned = true for exactly the target kids, and the master video's
\* url, platform, platformVideoId and priority; nothing of the master's
\* assigned map, progress map or totalViews is in the copy.
C13_ReplicatedStartFresh ==
    \A v \in Replicated(MasterFolder) :
        /\ v.userId = "A"
        /\ v.totalViews = 0
        /\ v.folderId = Some(LocalFolderRows(SyncOnce(MasterFolder), "A",
                                             MasterFolder)[1].id)
        /\ DOMAIN v.assigned = Targets(MasterFolder)
        /\ DOMAIN v.progress = Targets(MasterFolder)
        /\ MasterKid \notin DOMAIN v.assigned \cup DOMAIN v.progress
        /\ \A k \in Targets(MasterFolder) :
              /\ v.assigned[k] = TRUE
              /\ v.progress[k].watched = FALSE
              /\ v.progress[k].watchedAt = None
              /\ v.progress[k].voiceRecording = None
              /\ v.progress[k].voiceRecordings = <<>>
        /\ \E mv \in videosTable :
              /\ mv.userId = MASTER_USER_ID /\ mv.folderId = Some(MasterFolder)
              /\ v.url = mv.url /\ v.platform = mv.platform
              /\ v.ytId = mv.ytId /\ v.priority = mv.priority

\* a sync for kid 3 alone has the master's watched, top-priority video to copy
C13_Witness ==
    /\ \E s \in SubscriptionRows(DB, "A", MasterFolder) : s.kidIds = <<3>>
    /\ \E v \in Replicated(MasterFolder) :
          v.ytId = "abc" /\ v.priority = VIDEO_PRIORITY_MAX
    /\ \E mv \in videosTable :
          /\ mv.userId = MASTER_USER_ID /\ mv.ytId = "abc"
          /\ mv.totalViews = 1 /\ mv.progress[MasterKid].watched

\* the kidIds of the subscription of "A" to the master folder, if there is one
ListedKidIds ==
    UNION {{s.kidIds[i] : i \in DOMAIN s.kidIds} :
              s \in SubscriptionRows(DB, "A", MasterFolder)}

\* the kids "A" has now
CurrentKids == {k.id : k \in {j \in kidsTable : j.userId = "A"}}

\* C14: a newly replicated video is assigned to every kid the subscriber has
\* at the moment of the sync when kidIds is empty, and otherwise to exactly
\* the listed ids that are kids of the subscriber at that moment.
C14_TargetsResolvedAtSync ==
    \A v \in Replicated(MasterFolder) :
        /\ ListedKidIds = {} => DOMAIN v.assigned = CurrentKids
        /\ ListedKidIds # {} => DOMAIN v.assigned = ListedKidIds \cap CurrentKids

\* kid 3, the only kid of "A" that is listed, has been deleted: the copy the
\* sync would make now is assigned to no kid
C14_Witness ==
    /\ ListedKidIds = {3, UnknownId}
    /\ 3 \notin CurrentKids
    /\ \E v \in Replicated(MasterFolder) : DOMAIN v.assigned = {}

\* C15: syncSubscription never changes a video that exists already: its
\* assigned map, progress map, totalViews, priority and folderId stay, also
\* when a kid was added or kidIds changed after the video was synced.
C15_SyncNotRetroactive ==
    /\ \A masterFolderId \in {MasterFolder, UnknownId} :
          videosTable \subseteq SyncOnce(masterFolderId).videos
    /\ videosTable \subseteq syncAllSubscriptions(DB, "A", MASTER_USER_ID).videos

\* a copy in the shadow folder is assigned to other kids than a copy made now
\* would be, and the sync has a copy to make
C15_Witness ==
    /\ Replicated(MasterFolder) # {}
    /\ \E v \in videosTable :
          /\ v.userId = "A"
          /\ v.folderId # None
          /\ v.folderId[1] \in ShadowIds(DB, MasterFolder)
          /\ DOMAIN v.assigned # Targets(MasterFolder)
          /\ CurrentKids \ DOMAIN v.assigned # {}

\* the folders of "A" that carry the shadow name of the master folder
ShadowFolders(folders, masterFolderId) ==
    {f \in Range(folders) :
        f.userId = "A" /\ f.name = localFolderName(masterFolderId)}

\* C16: through subscribe, syncSubscription, syncAllSubscriptions and
\* unsubscribe a subscriber has at most one folder named
\* __global_<masterFolderId> for each master folder; the sync that finds none
\* creates one and every later sync reuses the folder that is there.
C16_OneShadowFolder ==
    \A masterFolderId \in {MasterFolder, LegacyFolder, UnknownId} :
        LET now == ShadowFolders(foldersTable, masterFolderId)
            once == ShadowFolders(SyncOnce(masterFolderId).folders, masterFolderId)
            twice == ShadowFolders(SyncTwice(masterFolderId).folders, masterFolderId)
            all == ShadowFolders(syncAllSubscriptions(DB, "A", MASTER_USER_ID).folders,
                                 masterFolderId)
        IN  /\ Cardinality(now) <= 1
            /\ Cardinality(once) <= 1
            /\ now # {} => once = now /\ all = now
            /\ twice = once
            /\ SubscriptionRows(DB, "A", masterFolderId) # {}
                  /\ getFolder(DB, masterFolderId, MASTER_USER_ID) # <<>>
                  => Cardinality(once) = 1

\* the shadow folder is there and the master has a video the next sync will
\* copy into it
C16_Witness ==
    /\ Cardinality(ShadowFolders(foldersTable, MasterFolder)) = 1
    /\ Replicated(MasterFolder) # {}
    /\ \E v \in videosTable :
          v.userId = "A" /\ v.folderId # None
            /\ v.folderId[1] \in {f.id : f \in ShadowFolders(foldersTable, MasterFolder)}

\* the folders of "A" whose name is reserved
ReservedFolders(folders) ==
    {f \in Range(folders) : f.userId = "A" /\ StartsWithGlobal(f.name)}

\* C17: a createFolder or rename request never gives the caller a folder
\* whose name starts with __global_ and never renames a shadow folder: the
\* caller's reserved-named folders are the same before and after it.
C17_ReservedNamesUnreachable ==
    [][(CreateFolder \/ RenameFolder)
         => ReservedFolders(foldersTable') = ReservedFolders(foldersTable)]_vars

\* C20: an owner has at most MAX_KIDS kids and no two of them have the same
\* name after trimming and lower-casing; a create at MAX_KIDS kids and a
\* create or rename to the name of another kid of the owner are rejected and
\* leave the tables as they are, while a kid may be renamed to its own name.
C20_KidPopulation ==
    LET kids == {k \in kidsTable : k.userId = "A"}
        Taken(name, but) == \E k \in kids : k.id # but /\ k.name[1] = name[1]
    IN  /\ Cardinality(kids) <= MAX_KIDS
        /\ \A j \in kids, k \in kids : j.name[1] = k.name[1] => j = k
        /\ \A name \in PopulationNames :
              LET r == PostKids(DB, "A", [name |-> name, avatar |-> "robot"]) IN
              /\ Cardinality(kids) >= MAX_KIDS \/ Taken(name, UnknownId)
                    => r.status = 400 /\ r.db = DB
              /\ r.status = 201
                    => Cardinality(getKids(r.db, "A")) = Cardinality(kids) + 1
        /\ \A id \in PopulationKids, name \in PopulationNames :
              LET r == PatchKidsId(DB, "A", id, [name |-> name]) IN
              /\ Taken(name, id) => r.status = 400 /\ r.db = DB
              /\ ( /\ ~Taken(name, id)
                   /\ name[1] # ""
                   /\ \E k \in kids : k.id = id )
                    => /\ r.status = 200
                       /\ \E k \in getKids(r.db, "A") :
                             k.id = id /\ k.name = Trimmed(name)

\* "A" has MAX_KIDS kids, one of them renamed to a name the request spelled
\* differently, so that creates are refused for the count and for the name
C20_Witness ==
    /\ Cardinality({k \in kidsTable : k.userId = "A"}) = MAX_KIDS
    /\ \E k \in kidsTable : k.userId = "A" /\ k.id <= 5 /\ k.name = <<"ann", 1>>
    /\ \E k \in kidsTable : k.userId = "A" /\ k.id > 5 /\ k.name[1] = "fay"

\* C18: the duplicate cleanup keeps, of the owner's kids with the same
\* trimmed lower-case name, the one with the smallest id; a video that had a
\* duplicate assigned has the keeper assigned; the keeper's progress is
\* replaced by a duplicate's only when the keeper's does not say watched; and
\* no video keeps a duplicate's id in assigned or progress.
C18_DuplicateMerge ==
    LET kids == {k \in kidsTable : k.userId = "A"}
        IsKeeper(k) == \A j \in kids : j.name[1] = k.name[1] => k.id <= j.id
        keepers == {k \in kids : IsKeeper(k)}
        dups == kids \ keepers
        DupsOf(k) == {d \in dups : d.name[1] = k.name[1]}
    IN
    \A deleteIds \in DeleteIdOrders(getKids(DB, "A")) :
        LET r == PostKidsCleanupDuplicates(DB, "A", deleteIds)
            After(v) == CHOOSE w \in r.db.videos : w.id = v.id
        IN
        /\ r.status = 200
        /\ r.removed = Cardinality(dups)
        /\ getKids(r.db, "A") = keepers
        /\ {w.id : w \in r.db.videos} = {v.id : v \in videosTable}
        /\ \A v \in {w \in videosTable : w.userId = "A"} :
              /\ [After(v) EXCEPT !.assigned = v.assigned, !.progress = v.progress] = v
              /\ \A d \in dups :
                    /\ d.id \notin DOMAIN After(v).assigned
                    /\ d.id \notin DOMAIN After(v).progress
              /\ \A k \in keepers :
                    LET assigned == {d \in DupsOf(k) : d.id \in DOMAIN v.assigned}
                        mine == {d \in DupsOf(k) : d.id \in DOMAIN v.progress}
                        kept == k.id \in DOMAIN v.progress /\ v.progress[k.id].watched
                    IN  /\ k.id \in DOMAIN After(v).assigned
                              <=> k.id \in DOMAIN v.assigned \/ assigned # {}
                        /\ k.id \in DOMAIN After(v).assigned => After(v).assigned[k.id]
                        /\ k.id \in DOMAIN After(v).progress
                              <=> k.id \in DOMAIN v.progress \/ mine # {}
                        /\ kept \/ (mine = {} /\ k.id \in DOMAIN v.progress)
                              => After(v).progress[k.id] = v.progress[k.id]
                        /\ ~kept /\ mine # {}
                              => /\ After(v).progress[k.id] \in {v.progress[d.id] : d \in mine}
                                 /\ (\E d \in mine : v.progress[d.id].watched)
                                       => After(v).progress[k.id].watched

\* three kids named cat; on one video the keeper has watched and a duplicate
\* has not, another video is assigned to a duplicate and not to the keeper
C18_Witness ==
    LET cats == {k \in kidsTable : k.userId = "A" /\ k.name[1] = "cat"}
        keeper == CHOOSE k \in cats : \A j \in cats : k.id <= j.id
    IN  /\ Cardinality(cats) = 3
        /\ inFlight.cleanup = None
        /\ \E v \in videosTable, d \in cats :
              /\ d # keeper
              /\ keeper.id \in DOMAIN v.progress /\ v.progress[keeper.id].watched
              /\ d.id \in DOMAIN v.progress /\ ~v.progress[d.id].watched
        /\ \E v \in videosTable, d \in cats :
              /\ d # keeper
              /\ keeper.id \notin DOMAIN v.assigned
              /\ d.id \in DOMAIN v.assigned

\* C19: the cleanup holds the merge of every video before it writes one,
\* deletes no kid before the last video is written, and without duplicates
\* writes nothing and reports removed 0; so at whichever await it stops, no
\* video names a duplicate whose kid row it has deleted.
C19_CleanupOrdering ==
    LET kids == {k \in kidsTable : k.userId = "A"}
        Owned(id) == {v \in videosTable : v.id = id /\ v.userId = "A"}
    IN
    /\ (\A j \in kids, k \in kids : j.name[1] = k.name[1] => j = k)
          => \A deleteIds \in DeleteIdOrders(getKids(DB, "A")) :
                LET r == PostKidsCleanupDuplicates(DB, "A", deleteIds) IN
                r.db = DB /\ r.removed = 0
    /\ inFlight.cleanup # None
          => LET job == inFlight.cleanup[1]
                 gone == {job.deleteIds[i] : i \in 1..job.deleted}
             IN  /\ job.deleted > 0 => job.pending = {}
                 /\ job.pending \subseteq job.videos
                 /\ \A video \in job.videos \ job.pending : video \in videosTable
                 /\ \A video \in job.pending :
                       \A v \in Owned(video.id) :
                           v \notin job.videos \/ v = video
                 /\ \A id \in gone :
                       /\ id \notin {k.id : k \in kidsTable}
                       /\ \A v \in videosTable :
                             id \notin DOMAIN v.assigned /\ id \notin DOMAIN v.progress
                 /\ \A i \in DOMAIN job.deleteIds :
                       i > job.deleted => job.deleteIds[i] \in {k.id : k \in kids}

\* the cleanup has deleted the first of two duplicates, after writing a video
\* that was assigned to a duplicate
C19_Witness ==
    /\ inFlight.cleanup # None
    /\ inFlight.cleanup[1].deleted = 1
    /\ Len(inFlight.cleanup[1].deleteIds) = 2
    /\ Cardinality(inFlight.cleanup[1].videos) = 2

\* C21: after a successful createKid every video the owner had, those in
\* shadow folders too, has assigned[newKid] = true and progress[newKid] =
\* {watched: false}; the entries of the other kids, totalViews and the rest
\* of each video are as before, and no other owner's video is touched.
C21_CreateKidFanOut ==
    \A body \in KidBodies :
        LET r == PostKids(DB, "A", body)
            newKid == nextId
            After(v) == CHOOSE w \in r.db.videos : w.id = v.id
        IN  r.status = 201 =>
              /\ {w.id : w \in r.db.videos} = {v.id : v \in videosTable}
              /\ \A v \in videosTable :
                    IF v.userId = "A"
                    THEN /\ newKid \notin DOMAIN v.assigned
                         /\ After(v) = [v EXCEPT
                                          !.assigned = Put(@, newKid, TRUE),
                                          !.progress = Put(@, newKid, [watched |-> FALSE] @@ EmptyProgress)]
                         /\ After(v).assigned[newKid]
                         /\ ~After(v).progress[newKid].watched
                         /\ \A k \in DOMAIN v.assigned :
                               After(v).assigned[k] = v.assigned[k]
                         /\ \A k \in DOMAIN v.progress :
                               After(v).progress[k] = v.progress[k]
                         /\ After(v).totalViews = v.totalViews
                    ELSE After(v) = v

\* "A" can still get a kid and owns a video in the shadow folder that is
\* assigned to one kid only
C21_Witness ==
    /\ \E body \in KidBodies : PostKids(DB, "A", body).status = 201
    /\ \E v \in videosTable :
          /\ v.userId = "A"
          /\ v.folderId # None
          /\ v.folderId[1] \in ShadowIds(DB, MasterFolder)
          /\ Cardinality(DOMAIN v.assigned) = 1

\* the kidIds a POST /api/videos body can carry: absent, empty, ids that are
\* or were kids, an id that never was one
VideoKidIds == {None, Some(<<>>), Some(<<1, UnknownId>>), Some(<<2, 1>>), Some(<<UnknownId>>)}

\* C22: a new video is assigned to all the kids the owner has when kidIds is
\* absent or empty, and otherwise to exactly the listed ids that are kids of
\* the owner, also when that leaves no kid; each target kid has assigned =
\* true and progress {watched: false}, and totalViews is 0.
C22_CreateVideoTargets ==
    LET kids == {k.id : k \in {j \in kidsTable : j.userId = "A"}} IN
    \A kidIds \in VideoKidIds, url \in KidUrls :
        LET r == PostVideos(DB, "A", [url |-> url, kidIds |-> kidIds,
                                      folderId |-> None, priority |-> None])
            listed == IF kidIds = None THEN {}
                      ELSE {kidIds[1][i] : i \in DOMAIN kidIds[1]}
            targets == IF listed = {} THEN kids ELSE listed \cap kids
        IN  r.status = 201 =>
              /\ r.db.videos \ videosTable # {}
              /\ \A v \in r.db.videos \ videosTable :
                    /\ v.id = nextId /\ v.userId = "A"
                    /\ DOMAIN v.assigned = targets
                    /\ DOMAIN v.progress = targets
                    /\ \A k \in targets :
                          /\ v.assigned[k]
                          /\ v.progress[k] = [watched |-> FALSE] @@ EmptyProgress
                    /\ v.totalViews = 0

\* kid 1 is deleted and "A" has other kids, so that a list naming kid 1 and
\* an unknown id selects nobody; the video can still be added
C22_Witness ==
    /\ 1 \notin {k.id : k \in kidsTable}
    /\ \E k \in kidsTable : k.userId = "A"
    /\ \E url \in KidUrls :
          PostVideos(DB, "A", [url |-> url, kidIds |-> Some(<<1, UnknownId>>),
                               folderId |-> None, priority |-> None]).status = 201

\* C23: deleteFolder(F) by the owner deletes no video: the ids of the videos
\* are as before, exactly the owner's videos that were in F get folderId =
\* null and change in nothing else, every other video is untouched, and no
\* video of the owner is in F afterwards; F alone leaves the folders.
C23_DeleteFolderKeepsVideos ==
    \A id \in FolderIds \cup {UnknownId} :
        LET r == DeleteFoldersId(DB, "A", id)
            After(v) == CHOOSE w \in r.db.videos : w.id = v.id
        IN  /\ r.status = 204
            /\ {w.id : w \in r.db.videos} = {v.id : v \in videosTable}
            /\ \A v \in videosTable :
                  After(v) = IF v.userId = "A" /\ v.folderId = Some(id)
                             THEN [v EXCEPT !.folderId = None] ELSE v
            /\ \A w \in r.db.videos : ~(w.userId = "A" /\ w.folderId = Some(id))
            /\ r.db.folders = SelectSeq(foldersTable,
                                        LAMBDA f : ~(f.id = id /\ f.userId = "A"))
            /\ r.db.kids = kidsTable /\ r.db.subs = globalSubscriptionsTable

\* "A" owns a folder that is no shadow folder and holds a video, and has a
\* video that is in another folder
C23_Witness ==
    \E i \in DOMAIN foldersTable :
        /\ foldersTable[i].userId = "A"
        /\ foldersTable[i].name = <<"Mine">>
        /\ \E v \in videosTable, w \in videosTable :
              /\ v.userId = "A" /\ v.folderId = Some(foldersTable[i].id)
              /\ w.userId = "A" /\ w.folderId # None /\ w.folderId # v.folderId

\* the recordings s, in their order and with their content, begin t
StartsWith(t, s) == Len(s) <= Len(t) /\ \A i \in DOMAIN s : t[i] = s[i]

AwaitingReview(videos, userId) ==
    UNION {{<<v.id, k>> : k \in {j \in DOMAIN v.progress :
                                    /\ v.progress[j].watched = TRUE
                                    /\ v.progress[j].parentReviewed # None
                                    /\ v.progress[j].parentReviewed[1] = FALSE}} :
              v \in {x \in videos : x.userId = userId}}

\* C27: the parent badge count is the number of the owner's (video, kid)
\* entries with watched = true and parentReviewed = false; clearParentBadge
\* leaves a count of 0 and changes exactly those entries, in parentReviewed
\* alone, which becomes true; and every markWatched that is accepted, a first
\* completion or a re-watch, before or after a clear, leaves its entry with
\* parentReviewed = false and a count of at least 1.
C27_ParentBadgeLifecycle ==
    LET cleared == clearParentBadge(DB, "A")
        After(v) == CHOOSE w \in cleared.videos : w.id = v.id
    IN  /\ getBadgeCountForParent(DB, "A") = Cardinality(AwaitingReview(videosTable, "A"))
        /\ getBadgeCountForParent(cleared, "A") = 0
        /\ AwaitingReview(cleared.videos, "A") = {}
        /\ {w.id : w \in cleared.videos} = {v.id : v \in videosTable}
        /\ \A v \in videosTable :
              After(v) = [v EXCEPT !.progress =
                            [k \in DOMAIN @ |->
                                IF <<v.id, k>> \in AwaitingReview(videosTable, "A")
                                THEN [@[k] EXCEPT !.parentReviewed = Some(TRUE)]
                                ELSE @[k]]]
        /\ \A kidId \in ReviewKids \cup {6}, voiceRecording \in ReviewRecordings :
              LET r == PostWatched("A", ReviewVideo, kidId, Some(voiceRecording), ReviewNow)
                  w == CHOOSE x \in r.videos : x.id = ReviewVideo
              IN  r.status = 200 =>
                      /\ w.progress[kidId].parentReviewed = Some(FALSE)
                      /\ w.progress[kidId].watched
                      /\ getBadgeCountForParent([DB EXCEPT !.videos = r.videos], "A") >= 1

\* a clear has reviewed the completion of kid 4; kid 5 has completed the video
\* since, and the legacy completion of kid 1 carries no parentReviewed
C27_Witness ==
    \E v \in videosTable :
        /\ {1, 4, 5} \subseteq DOMAIN v.progress
        /\ v.progress[4].watched /\ v.progress[4].parentReviewed = Some(TRUE)
        /\ v.progress[5].watched /\ v.progress[5].parentReviewed = Some(FALSE)
        /\ v.progress[1].watched /\ v.progress[1].parentReviewed = None

\* the seconds an entry holds for a day
WatchTime(entry, day) ==
    IF day \in DOMAIN entry.dailyWatchTime THEN entry.dailyWatchTime[day] ELSE 0

\* the entry of a kid on the video of the history, as saveVideoPosition finds it
EntryIn(videos, kidId) ==
    LET v == CHOOSE x \in videos : x.id = ReviewVideo IN
    IF kidId \in DOMAIN v.progress THEN v.progress[kidId] ELSE NotWatched

\* C28: saveVideoPosition, with increment = max(0, position - the previous
\* lastPosition, 0 when there is none), adds increment to the bucket of the
\* current day exactly when 0 < increment < 30 and leaves the buckets as they
\* are otherwise; it always sets lastPosition to the position; it sets
\* videoDuration only when a positive duration is given; watched, watchedAt,
\* the recordings and parentReviewed of the entry, the other entries and
\* totalViews stay as they were.  From an entry at lastPosition 10 the
\* positions 10, 15, 5 add 5 seconds in all and end at lastPosition 5.
C28_SavePositionAccumulates ==
    /\ \A kidId \in ReviewKids \cup {6}, position \in {0, 5, 10, 15, 39, 40},
          duration \in {None, Some(0), Some(60)}, today \in Days :
          LET r == saveVideoPosition(DB, ReviewVideo, kidId, position, "A", duration, today)
              v == CHOOSE x \in videosTable : x.id = ReviewVideo
              w == CHOOSE x \in r.db.videos : x.id = ReviewVideo
              before == EntryIn(videosTable, kidId)
              after == EntryIn(r.db.videos, kidId)
              previous == IF before.lastPosition = None THEN 0 ELSE before.lastPosition[1]
              increment == IF position - previous < 0 THEN 0 ELSE position - previous
          IN  /\ r.ok
              /\ WatchTime(after, today) =
                     WatchTime(before, today)
                         + (IF 0 < increment /\ increment < 30 THEN increment ELSE 0)
              /\ \A day \in Days \ {today} : WatchTime(after, day) = WatchTime(before, day)
              /\ DOMAIN after.dailyWatchTime \subseteq DOMAIN before.dailyWatchTime \cup {today}
              /\ (~(0 < increment /\ increment < 30)) =>
                     after.dailyWatchTime = before.dailyWatchTime
              /\ after.lastPosition = Some(position)
              /\ after.videoDuration = IF duration = Some(60) THEN Some(60)
                                       ELSE before.videoDuration
              /\ after.watched = before.watched
              /\ after.watchedAt = before.watchedAt
              /\ after.voiceRecordings = before.voiceRecordings
              /\ after.voiceRecording = before.voiceRecording
              /\ after.parentReviewed = before.parentReviewed
              /\ w.totalViews = v.totalViews
              /\ DOMAIN w.progress = DOMAIN v.progress \cup {kidId}
              /\ \A k \in DOMAIN v.progress \ {kidId} : w.progress[k] = v.progress[k]
              /\ w = [v EXCEPT !.progress = w.progress]
              /\ r.db = [DB EXCEPT !.videos = (videosTable \ {v}) \cup {w}]
    /\ saveVideoPosition(DB, ReviewVideo, 4, 5, "B", None, "mon") = [ok |-> FALSE, db |-> DB]
    /\ saveVideoPosition(DB, UnknownId, 4, 5, "A", None, "mon") = [ok |-> FALSE, db |-> DB]
    /\ EntryIn(videosTable, 4).lastPosition = Some(10) =>
          LET first == saveVideoPosition(DB, ReviewVideo, 4, 10, "A", None, "mon").db
              second == saveVideoPosition(first, ReviewVideo, 4, 15, "A", None, "mon").db
              third == saveVideoPosition(second, ReviewVideo, 4, 5, "A", None, "mon").db
              start == WatchTime(EntryIn(videosTable, 4), "mon")
          IN  /\ WatchTime(EntryIn(first.videos, 4), "mon") = start
              /\ WatchTime(EntryIn(second.videos, 4), "mon") = start + 5
              /\ WatchTime(EntryIn(third.videos, 4), "mon") = start + 5
              /\ EntryIn(third.videos, 4).lastPosition = Some(5)

\* kid 4 has completed the video and a position of 10 was saved for it since,
\* with seconds counted for "mon" and a duration stored
C28_Witness ==
    LET entry == EntryIn(videosTable, 4) IN
    /\ entry.watched
    /\ entry.lastPosition = Some(10)
    /\ WatchTime(entry, "mon") > 0
    /\ entry.videoDuration = Some(60)

\* C24: in every step, of any interleaving of the reads and writes of
\* markWatched, savePosition, createKid and clearParentBadge, an entry with
\* watched = true on a video that stays in the store is there with watched =
\* true after the step.
C24_WatchedIsTerminal ==
    [][\A v \in videosTable : \A w \in videosTable' :
          v.id = w.id =>
              \A k \in DOMAIN v.progress :
                  v.progress[k].watched =>
                      k \in DOMAIN w.progress /\ w.progress[k].watched]_vars

\* the completions the entries of a video show
CompletedEntries(v) == {k \in DOMAIN v.progress : v.progress[k].watched}

\* C26: a markWatched issues exactly one update, and that update sets both
\* progress and totalViews; so whether the process stops before it, after it,
\* or not at all, every state of the store has as many views counted as
\* entries completed, and a recording stored on exactly the completed
\* entries: no first completion shows its recording without its view, or its
\* view without its recording.
C26_AtomicCompletionWrite ==
    /\ \A h \in inFlight.handlers :
          h.op = "markWatched" =>
              /\ Len(h.writes) = 1
              /\ DOMAIN h.writes[1].set = {"progress", "totalViews"}
    /\ \A kidId \in {4, 5}, voiceRecording \in ReviewRecordings :
          LET r == PostWatched("A", ReviewVideo, kidId, Some(voiceRecording), ReviewNow)
              writes == WatchedWrites(CHOOSE v \in getVideo(ReviewVideo, "A") : TRUE,
                                      kidId, voiceRecording, ReviewNow)
          IN  r.status = 200 =>
                  /\ Len(writes) = 1
                  /\ ApplyWrite(DB, writes[1]).videos = r.videos
    /\ \A v \in videosTable :
          /\ v.totalViews = Cardinality(CompletedEntries(v))
          /\ \A k \in DOMAIN v.progress :
                v.progress[k].watched <=>
                    (v.progress[k].voiceRecordings # <<>> \/ v.progress[k].voiceRecording # None)

\* kid 4 has completed the video, its view is counted, and the markWatched of
\* kid 5 is suspended between its select and its update
C26_Witness ==
    /\ \E h \in inFlight.handlers :
          /\ h.op = "markWatched"
          /\ h.writes[1].set.progress[5].watched
    /\ \E v \in videosTable :
          /\ v.progress[4].watched /\ ~v.progress[5].watched
          /\ v.totalViews >= 1

\* the folders of an account whose name starts with __global_
GlobalNamed(folders, userId) ==
    {f \in Range(folders) : f.userId = userId /\ Len(f.name) > 0 /\ f.name[1] = "__global_"}

\* C29: after cleanupGlobalData(owner) the owner has no folder whose name
\* starts with __global_, no video that was in such a folder and no
\* subscription row; the owner's other folders, in their order, the owner's
\* videos outside those folders, the kids and every record of the other
\* accounts are as they were.
C29_CleanupGlobalData ==
    \A owner \in SyncUsers :
        LET after == cleanupGlobalData(DB, owner)
            shadowIds == {f.id : f \in GlobalNamed(foldersTable, owner)}
            InShadow(v) == v.userId = owner /\ v.folderId # None /\ v.folderId[1] \in shadowIds
        IN  /\ GlobalNamed(after.folders, owner) = {}
            /\ \A v \in after.videos : ~InShadow(v)
            /\ \A sub \in after.subs : sub.userId # owner
            /\ after.folders = SelectSeq(foldersTable,
                                         LAMBDA f : f \notin GlobalNamed(foldersTable, owner))
            /\ \A v \in videosTable : ~InShadow(v) => v \in after.videos
            /\ after.videos \subseteq videosTable
            /\ \A sub \in globalSubscriptionsTable : sub.userId # owner => sub \in after.subs
            /\ after.subs \subseteq globalSubscriptionsTable
            /\ after.kids = kidsTable
            /\ after.nextId = nextId

\* "A" has a subscription, a shadow folder holding a video and a folder
\* "Mine" of its own; the master has a video in a playlist
C29_Witness ==
    /\ \E sub \in globalSubscriptionsTable : sub.userId = "A"
    /\ \E f \in GlobalNamed(foldersTable, "A") :
          \E v \in videosTable : v.userId = "A" /\ v.folderId = Some(f.id)
    /\ \E f \in Range(foldersTable) : f.userId = "A" /\ f.name = <<"Mine">>
    /\ \E v \in videosTable : v.userId = MASTER_USER_ID /\ v.folderId = Some(MasterFolder)

\* C30: in one process a cleanupGlobalData is started only for the master
\* account and only when none was started before, by any request, one that
\* is still awaiting it included.
C30_CleanupStartsOnce ==
    [][\A h \in inFlight'.handlers \ inFlight.handlers :
          /\ h.userId = MASTER_USER_ID
          /\ inFlight.handlers = {}
          /\ masterCleanedUp = {}]_vars

----------------------------------------------------------------------------
(* Properties of the routes as a whole *)

\* C32: a delete of a kid, a video or a folder that the caller does not own
\* (an unknown id, or the id of a record of another account), an unsubscribe
\* or a sync without a subscription of the caller, and a sync whose master
\* folder is gone, answer with an error status and leave the store as it is.
C32_RejectionsAreErrors ==
    LET Rejected(r) == r.status >= 400 /\ r.db = DB
        mine == {k.id : k \in getKids(DB, "A")}
               \cup {v.id : v \in getVideos(DB, "A")}
               \cup {f.id : f \in {g \in Range(foldersTable) : g.userId = "A"}}
    IN  /\ \A id \in (0..MaxSyncIds \cup {UnknownId}) \ mine :
              /\ Rejected(DeleteKidsId(DB, "A", id))
              /\ Rejected(DeleteVideosId(DB, "A", id))
              /\ Rejected(DeleteFoldersId(DB, "A", id))
        /\ \A masterFolderId \in {MasterFolder, LegacyFolder, UnknownId} :
              LET held == \E sub \in globalSubscriptionsTable :
                             sub.userId = "A" /\ sub.masterFolderId = masterFolderId
                  body == [masterFolderId |-> masterFolderId]
              IN  /\ ~held => Rejected(PostGlobalUnsubscribe(DB, "A", body))
                  /\ (~held \/ masterFolderId \notin FolderIds) =>
                        Rejected(PostGlobalSync(DB, "A", body))

\* the records of some accounts, the folders in their order
OwnedBy(db, users) ==
    [kids |-> {k \in db.kids : k.userId \in users},
     folders |-> SelectSeq(db.folders, LAMBDA f : f.userId \in users),
     videos |-> {v \in db.videos : v.userId \in users},
     subs |-> {sub \in db.subs : sub.userId \in users}]

\* the store as it would be had some accounts never existed
Without(db, users) ==
    [db EXCEPT !.kids = OwnedBy(db, Users \ users).kids,
               !.folders = OwnedBy(db, Users \ users).folders,
               !.videos = OwnedBy(db, Users \ users).videos,
               !.subs = OwnedBy(db, Users \ users).subs]

\* r is what a request of "A" leaves and answers, q what the same request
\* leaves and answers in the store without the accounts `unread`: the request
\* changes no record of another account, and neither its answer nor what it
\* does to the records of "A" depends on a record of the accounts unread
Isolated(r, q, unread) ==
    /\ OwnedBy(r.db, {"B", MASTER_USER_ID}) = OwnedBy(DB, {"B", MASTER_USER_ID})
    /\ OwnedBy(q.db, Users \ (unread \cup {"A"})) = OwnedBy(DB, Users \ (unread \cup {"A"}))
    /\ r.status = q.status
    /\ OwnedBy(r.db, {"A"}) = OwnedBy(q.db, {"A"})

Truncated(json) ==
    IF json.whole < 0 /\ json.half = 1 THEN json.whole + 1 ELSE json.whole

\* v with the fields a PATCH body supplies replaced and every other field kept
Patched(v, body) ==
    [v EXCEPT !.priority = IF body.priority = None THEN @
                           ELSE IF Truncated(body.priority[1]) < 1 THEN 1
                           ELSE IF Truncated(body.priority[1]) > 9 THEN 9
                           ELSE Truncated(body.priority[1]),
              !.folderId = IF body.folderId = <<>> THEN @ ELSE body.folderId[1]]

PriorityInputs ==
    {NotNumeric} \cup UNION {{Num(n), Half(n), Text(n)} : n \in (0 - 1)..10}

\* C33: every stored video has an integer priority from 1 to 9; a video
\* created without a priority gets 5; a PATCH with a numeric priority stores
\* that priority clamped into 1..9 and keeps every field it does not supply,
\* a PATCH of a video outside the caller's scope answers 404 and changes
\* nothing, and the videos a sync creates carry their master video's
\* priority.
C33_PriorityRange ==
    /\ \A v \in videosTable : v.priority \in 1..9
    /\ \A userId \in SyncUsers, url \in SyncUrls :
          LET r == PostVideos(DB, userId, [url |-> url, kidIds |-> None,
                                           folderId |-> None, priority |-> None])
          IN  r.status = 201 =>
                  /\ Cardinality(r.db.videos \ videosTable) = 1
                  /\ \A v \in r.db.videos \ videosTable : v.priority = 5
    /\ \A userId \in SyncUsers, id \in 0..(MaxPriorityIds + 1),
          priority \in {None} \cup {Some(j) : j \in PriorityInputs},
          folderId \in {<<>>, Some(None), Some(Some(MasterFolder))} :
          LET body == [priority |-> priority, folderId |-> folderId]
              r == PatchVideosId(DB, userId, id, body)
              mine == {v \in videosTable : v.id = id /\ v.userId = userId}
          IN  IF mine = {} THEN r.status = 404 /\ r.db = DB
              ELSE IF priority # None /\ priority[1].type = "other"
              THEN r.status = 500 /\ r.db = DB
              ELSE /\ r.status = 200
                   /\ r.db = [DB EXCEPT !.videos = (@ \ mine)
                                            \cup {Patched(v, body) : v \in mine}]
    /\ \A masterFolderId \in {MasterFolder, UnknownId} :
          LET r == PostGlobalSync(DB, "A", [masterFolderId |-> masterFolderId])
          IN  \A v \in r.db.videos \ videosTable :
                  \E mv \in videosTable :
                      /\ mv.userId = MASTER_USER_ID
                      /\ mv.folderId = Some(masterFolderId)
                      /\ mv.ytId = v.ytId
                      /\ v.priority = mv.priority

\* "A" holds a copy that carries a priority its master video got from a
\* PATCH, beside a video of its own whose priority a PATCH has changed
C33_Witness ==
    /\ \E v \in videosTable, mv \in videosTable, f \in FolderIds :
          /\ v.userId = "A" /\ v.folderId = Some(f)
          /\ mv.userId = MASTER_USER_ID /\ mv.folderId = Some(MasterFolder)
          /\ mv.ytId = v.ytId /\ v.priority = mv.priority /\ v.priority = 2
    /\ \E v \in videosTable :
          v.userId = "A" /\ v.folderId = None /\ v.priority = 1

----------------------------------------------------------------------------
(* Properties of the URL classifier *)

\* every URL of up to three path segments over the hosts, segments and v
\* parameters the rules tell apart, and the string that is no URL
ClassifiedHosts ==
    {<<"youtu", "be">>, <<"www", "youtu", "be">>, <<"youtube", "com">>,
     <<"www", "youtube", "com">>, <<"m", "youtube", "com">>,
     <<"notyoutube", "com">>, <<"youtube", "community">>, <<"tiktok", "com">>,
     <<"www", "tiktok", "com">>, <<"m", "tiktok", "com">>,
     <<"vm", "tiktok", "com">>, <<"example", "com">>}
ClassifiedSegments == {"video", "shorts", "embed", "t", "123", "12a"}
ClassifiedPaths ==
    UNION {[1..n -> ClassifiedSegments] : n \in 0..3}
ClassifiedUrls ==
    {Unparseable} \cup {Url(host, path, v) : host \in ClassifiedHosts,
                                              path \in ClassifiedPaths,
                                              v \in {None, Some(""), Some("abc")}}

\* the YouTube rules give id for url
YouTubeRule(url, id) ==
    /\ url.host # <<>>
    /\ \/ /\ StripWww(url.host) = <<"youtu", "be">>
          /\ url.path # <<>> /\ id = Head(url.path)
       \/ /\ IncludesYoutubeCom(StripWww(url.host))
          /\ \/ url.v # None /\ url.v # Some("") /\ id = url.v[1]
             \/ /\ url.v \in {None, Some("")}
                /\ Len(url.path) >= 2
                /\ Head(url.path) \in {"shorts", "embed"}
                /\ id = url.path[2]

TikTokHost(url) ==
    /\ url.host # <<>>
    /\ StripWww(url.host) \in {<<"tiktok", "com">>, <<"m", "tiktok", "com">>}

\* the TikTok rule gives id for url: id is purely numeric and comes directly
\* after the first "video" segment
TikTokRule(url, id) ==
    /\ TikTokHost(url)
    /\ \E i \in 1..(Len(url.path) - 1) :
          /\ url.path[i] = "video"
          /\ \A j \in 1..(i - 1) : url.path[j] # "video"
          /\ url.path[i + 1] = id
          /\ id \in NumericSegments

\* the TikTok rule as stated: id is purely numeric and comes directly after
\* a "video" segment
TikTokRuleAsStated(url, id) ==
    /\ TikTokHost(url)
    /\ \E i \in 1..(Len(url.path) - 1) :
          url.path[i] = "video" /\ url.path[i + 1] = id /\ id \in NumericSegments

ClassifiedIds == ClassifiedSegments \cup {"abc"}

ClassifiedBy(tikTokRule(_, _)) ==
    \A url \in ClassifiedUrls :
        /\ \A id \in ClassifiedIds :
              /\ YouTubeRule(url, id) =>
                    getVideoInfo(url) = Some([platform |-> "youtube", videoId |-> id])
              /\ tikTokRule(url, id) =>
                    getVideoInfo(url) = Some([platform |-> "tiktok", videoId |-> id])
              /\ ~(YouTubeRule(url, id) /\ \E other \in ClassifiedIds : tikTokRule(url, other))
        /\ (\A id \in ClassifiedIds : ~YouTubeRule(url, id) /\ ~tikTokRule(url, id))
              => getVideoInfo(url) = None

ShortLinksUnclassified ==
    \A url \in ClassifiedUrls :
        \/ url.host = <<>>
        \/ url.host = <<"vm", "tiktok", "com">>
        \/ TikTokHost(url) /\ url.path # <<>> /\ Head(url.path) = "t"
                           /\ \A i \in DOMAIN url.path : url.path[i] # "video"
        => getVideoInfo(url) = None

ClassifiedAsCoded == ClassifiedBy(TikTokRule)
ClassifiedAsStated == ClassifiedBy(TikTokRuleAsStated)

----------------------------------------------------------------------------
(* Properties of concurrent requests *)

\* the kids whose completion of the video was answered with 200
Succeeded(videoId) ==
    {completions[i][2] : i \in {j \in DOMAIN completions : completions[j][1] = videoId}}

\* C35: when the markWatched requests of two kids for one video run with
\* their reads and writes interleaved, every kid whose request has succeeded
\* has watched = true with a recording, totalViews counts the kids that
\* completed before and every kid that has succeeded since, and no more than
\* MAX_VIDEO_VIEWS kids have completed the video.
C35_ConcurrentCompletionsKept ==
    \A v \in videosTable :
        LET before == {k \in DOMAIN v.progress :
                          v.progress[k].watched /\ v.progress[k].watchedAt = Some(0)}
            since == Succeeded(v.id)
        IN  /\ \A k \in since :
                  /\ k \in DOMAIN v.progress
                  /\ v.progress[k].watched
                  /\ v.progress[k].voiceRecordings # <<>>
            /\ v.totalViews = Cardinality(before \cup since)
            /\ Cardinality(before \cup since) <= MAX_VIDEO_VIEWS

\* C36: when two runs of syncSubscription for the same subscriber and master
\* folder are interleaved at their selects and inserts, the subscriber has
\* at most one folder named __global_<masterFolderId>, and the shadow
\* folders hold at most one copy of each master video id.
C36_ConcurrentSyncsDoNotDuplicate ==
    LET shadow == {foldersTable[i].id : i \in
                      {j \in DOMAIN foldersTable :
                          /\ foldersTable[j].userId = "A"
                          /\ foldersTable[j].name = localFolderName(MasterFolder)}}
        copies == {v \in videosTable :
                      v.userId = "A" /\ \E f \in shadow : v.folderId = Some(f)}
    IN  /\ Cardinality(shadow) <= 1
        /\ \A v \in copies, w \in copies : v.ytId = w.ytId => v = w

----------------------------------------------------------------------------
(* Properties of the view count *)

\* C37: in every state reached by createVideo, createKid, deleteKid,
\* markWatched, savePosition, clearParentBadge and sync, one request at a
\* time, the totalViews of every video is the number of ids whose progress
\* entry has watched = true, and it is between 0 and MAX_VIDEO_VIEWS.
C37_TotalViewsCountsWatched ==
    \A v \in videosTable :
        /\ v.totalViews = Cardinality({k \in DOMAIN v.progress : v.progress[k].watched})
        /\ v.totalViews >= 0
        /\ v.totalViews <= MAX_VIDEO_VIEWS

\* the video is at the cap and one of its viewers has been deleted, and a
\* copy in the shadow folder has a view of its own
C37_Witness ==
    /\ \E v \in videosTable :
          /\ v.id = WatchVideo /\ v.totalViews = MAX_VIDEO_VIEWS
          /\ v.progress[4].watched
    /\ \A k \in kidsTable : k.id # 5
    /\ \E v \in videosTable :
          v.userId = "A" /\ v.folderId # None /\ v.totalViews = 1

----------------------------------------------------------------------------
(* Properties of the progress map *)

\* C38: a completion that succeeds leaves the lastPosition, videoDuration
\* and dailyWatchTime of the kid's entry as saveVideoPosition last stored
\* them.
C38_CompletionKeepsAnalytics ==
    \A kidId \in ReviewKids, voiceRecording \in ReviewRecordings :
        LET r == PostWatched("A", ReviewVideo, kidId, Some(voiceRecording), ReviewNow)
            before == EntryIn(videosTable, kidId)
            after == EntryIn(r.videos, kidId)
        IN  r.status = 200 =>
                /\ after.lastPosition = before.lastPosition
                /\ after.videoDuration = before.videoDuration
                /\ after.dailyWatchTime = before.dailyWatchTime

\* C39: every key of a video's progress map is a kid of the video's owner
\* that is assigned to the video, and only the completions of such kids are
\* counted in totalViews; a markWatched for any other id leaves no entry.
C39_ProgressOnlyForAssignedKids ==
    \A v \in videosTable :
        LET assignedKids == {k.id : k \in {x \in kidsTable :
                                /\ x.userId = v.userId
                                /\ x.id \in DOMAIN v.assigned
                                /\ v.assigned[x.id]}}
        IN  /\ DOMAIN v.progress \subseteq assignedKids
            /\ v.totalViews <= Cardinality(assignedKids)

----------------------------------------------------------------------------
(* Properties of the kid scope of a subscription *)

\* the ids of the folders of the subscription s after the step
ShadowFoldersNext(s) ==
    {foldersTable'[i].id : i \in
        {j \in DOMAIN foldersTable' :
            /\ foldersTable'[j].userId = s.userId
            /\ foldersTable'[j].name = localFolderName(s.masterFolderId)}}

\* C40: a step that creates a kid leaves the kid unassigned on every video
\* in the shadow folder of a subscription of its owner whose kidIds list is
\* not empty, so the kids assigned there stay within the list the
\* subscription was synced with.
C40_SubscriptionKidScope ==
    [][\A kid \in kidsTable' \ kidsTable :
          \A s \in globalSubscriptionsTable :
              (s.userId = kid.userId /\ s.kidIds # <<>>) =>
                  \A v \in videosTable' :
                      (v.userId = s.userId
                         /\ \E f \in ShadowFoldersNext(s) : v.folderId = Some(f)) =>
                          ~(kid.id \in DOMAIN v.assigned /\ v.assigned[kid.id])]_vars

====
